---------------------------- MODULE Spec2Model ----------------------------
(***************************************************************************)
(* Model of the request signing path (client/auth.rs, client/http.rs,      *)
(* utils.rs), of the classification of HTTP responses (client/http.rs,     *)
(* error.rs), of the listen-key lifecycle manager                          *)
(* (websocket/user_data.rs) and of the stream connector                    *)
(* (websocket/stream.rs, websocket/types.rs) of binance-futures-rs.        *)
(*                                                                         *)
(* Strings are sequences of byte values (ASCII codes), so that String::cmp *)
(* is the byte-wise lexicographic order and format!/join are sequence      *)
(* concatenation.  A HashMap<String,String> is a function from keys to     *)
(* values; the order in which a HashMap is iterated is unspecified, and is *)
(* modelled as a nondeterministic choice of a permutation of its keys.     *)
(***************************************************************************)
EXTENDS Integers, Sequences, FiniteSets, TLC

VARIABLES
    signer,             \* HttpClient.signer : Option<Signer>
    now,                \* SystemTime::now() in epoch milliseconds
    last,               \* the last signed call made on the HttpClient
    listen_key,         \* UserDataStreamManager.listen_key : Option<String>
    last_keepalive,     \* UserDataStreamManager.last_keepalive : Option<Instant>
    keepalive_interval, \* UserDataStreamManager.keepalive_interval
    clock,              \* Instant::now(), in units of 15 minutes
    task,               \* position of start_keepalive_task: "idle" or "sleep"
    op,                 \* the last manager operation and the requests it issued
    session,            \* a UserDataStream's caller: its cadence and next call
    reply,              \* the reqwest::Response given to handle_response
    handled,            \* the Result handle_response returned for it
    frame_text,         \* the text given to parse_message
    parsed,             \* the Result parse_message returned for it
    base_url,           \* WebSocketClient.base_url
    streams,            \* StreamBuilder.streams : Vec<String>
    connections,        \* the URLs connect_async was called with, in order
    connected,          \* the Result of the last connecting call
    inbound,            \* the items ws.next() has yielded to handle_message
    outbound,           \* the frames handle_message has sent
    delivered,          \* the messages the handler was called with, in order
    reported,           \* the errors handle_message has printed, in order
    loop,               \* handle_message: "running", or the Result it returned
    sign_args,          \* the secret key and the query string given to sign
    sign_result,        \* the Result sign returned for them
    open_orders,        \* the orders open on the exchange
    api_call            \* the last AdvancedTradingApi call and what it sent

vars == <<signer, now, last, listen_key, last_keepalive, keepalive_interval,
          clock, task, op, session, reply, handled, frame_text, parsed, base_url,
          streams, connections, connected, inbound, outbound, delivered, reported,
          loop, sign_args, sign_result, open_orders, api_call>>

httpVars == <<signer, now, last>>
lkVars == <<listen_key, last_keepalive, keepalive_interval, clock, task, op, session>>
responseVars == <<reply, handled>>
parseVars == <<frame_text, parsed>>
builderVars == <<base_url, streams, connections, connected>>
loopVars == <<inbound, outbound, delivered, reported, loop>>
wsVars == <<parseVars, builderVars, loopVars>>
signVars == <<sign_args, sign_result>>
tradeVars == <<open_orders, api_call>>
apiVars == <<signVars, tradeVars>>

(***************************************************************************)
(* Bounds                                                                  *)
(***************************************************************************)
MaxParams == 2      \* most caller-supplied parameters in one call
ClockStart == 9     \* first SystemTime reading of a behaviour (ms)
MaxNow == 10        \* last SystemTime reading of a behaviour (ms)
MaxClock == 6       \* last Instant of a behaviour, in units of 15 minutes
MaxInterval == 5    \* longest keepalive interval that is configured
MaxDelay == 1       \* longest time one request, or a sleep's overrun, takes
MaxStreams == 3     \* most topics added to one StreamBuilder
MaxFrames == 3      \* most items one run of handle_message reads
MaxMessageLen == 2  \* longest of the short query strings given to sign
MaxOrders == 2      \* most orders open before a call, or handed to one

(***************************************************************************)
(* Strings                                                                 *)
(***************************************************************************)
TIMESTAMP == <<116, 105, 109, 101, 115, 116, 97, 109, 112>>  \* "timestamp"
SIGNATURE == <<115, 105, 103, 110, 97, 116, 117, 114, 101>>  \* "signature"
LISTENKEY == <<108, 105, 115, 116, 101, 110, 75, 101, 121>>  \* "listenKey"
TYPE == <<116, 121, 112, 101>>                               \* "type"
BUY == <<66, 85, 89>>                                        \* "BUY"
ONE == <<49>>                                                \* "1"
EQUALS == <<61>>                                             \* "="
AMPERSAND == <<38>>                                          \* "&"

\* String::cmp == Less: byte-wise lexicographic order, a prefix comes first.
RECURSIVE StrLess(_, _)
StrLess(a, b) ==
    IF b = <<>> THEN FALSE
    ELSE IF a = <<>> THEN TRUE
    ELSE IF Head(a) < Head(b) THEN TRUE
    ELSE IF Head(a) > Head(b) THEN FALSE
    ELSE StrLess(Tail(a), Tail(b))

\* u64::to_string: decimal digits, most significant first.
RECURSIVE U64ToString(_)
U64ToString(n) ==
    IF n < 10 THEN <<48 + n>>
    ELSE U64ToString(n \div 10) \o <<48 + (n % 10)>>

\* One hexadecimal digit written in upper case.
HexDigitUpper(d) == IF d < 10 THEN 48 + d ELSE 55 + d

\* One lowercase hexadecimal digit, as hex::encode writes it.
HexDigit(d) == IF d < 10 THEN 48 + d ELSE 87 + d

\* hex::encode: two lowercase hexadecimal digits per byte.
RECURSIVE HexEncode(_)
HexEncode(bytes) ==
    IF bytes = <<>> THEN <<>>
    ELSE <<HexDigit(Head(bytes) \div 16), HexDigit(Head(bytes) % 16)>>
         \o HexEncode(Tail(bytes))

(***************************************************************************)
(* HashMap<String, String>                                                 *)
(***************************************************************************)
EmptyMap == [k \in {} |-> <<>>]

\* HashMap::insert: adds the key, or overwrites the value of an existing key.
MapInsert(m, k, v) == [x \in (DOMAIN m) \cup {k} |-> IF x = k THEN v ELSE m[x]]

\* The orders in which the keys of a map can be met by an iteration.
RECURSIVE Perms(_)
Perms(S) ==
    IF S = {} THEN {<<>>}
    ELSE UNION {{<<x>> \o p : p \in Perms(S \ {x})} : x \in S}

IterOrders(m) == Perms(DOMAIN m)

\* HashMap::iter / into_iter under iteration order `iter`: the (key, value) pairs.
MapIter(m, iter) == [i \in 1..Len(iter) |-> <<iter[i], m[iter[i]]>>]

\* collect::<HashMap<_,_>>() of a sequence of pairs: a later pair overwrites.
FromPairsDropLast(pairs) ==
    LET front == SubSeq(pairs, 1, Len(pairs) - 1)
    IN  [k \in {front[i][1] : i \in 1..Len(front)} |->
            front[CHOOSE i \in 1..Len(front) :
                    /\ front[i][1] = k
                    /\ \A j \in (i+1)..Len(front) : front[j][1] # k][2]]

FromPairs(pairs) ==
    [k \in {pairs[i][1] : i \in 1..Len(pairs)} |->
        pairs[CHOOSE i \in 1..Len(pairs) :
                /\ pairs[i][1] = k
                /\ \A j \in (i+1)..Len(pairs) : pairs[j][1] # k][2]]

(***************************************************************************)
(* utils.rs                                                                *)
(***************************************************************************)
\* A clock reading that is taken once and then reused.
stale_timestamp(systemTime) == ClockStart

\* get_timestamp: the SystemTime reading, in milliseconds since the epoch.
get_timestamp(systemTime) == systemTime

\* format!("{}={}", key, value)
FormatPair(pair) == pair[1] \o EQUALS \o pair[2]

\* .map(format).collect::<Vec<_>>().join("&")
RECURSIVE JoinPairs(_)
JoinPairs(pairs) ==
    IF pairs = <<>> THEN <<>>
    ELSE IF Len(pairs) = 1 THEN FormatPair(pairs[1])
    ELSE FormatPair(pairs[1]) \o AMPERSAND \o JoinPairs(Tail(pairs))

\* build_query_string_from_map: the pairs in the map's iteration order.
build_query_string_from_map(params, iter) == JoinPairs(MapIter(params, iter))

(***************************************************************************)
(* client/auth.rs                                                          *)
(***************************************************************************)
NoSigner == [some |-> FALSE, api_key |-> <<>>, secret_key |-> <<>>]
TestSigner == [some |-> TRUE, api_key |-> <<107>>, secret_key |-> <<115>>]

\* The output size of Sha256, in bytes.
DigestLen == 256 \div 8

\* The byte of a digest at position i: the bytes of the (key, message) pair
\* at i, i + DigestLen, i + 2 * DigestLen, ..., each weighted by its round.
RECURSIVE DigestByte(_, _, _)
DigestByte(pair, i, round) ==
    IF i > Len(pair) THEN 0
    ELSE pair[i] * round + DigestByte(pair, i + DigestLen, round + 1)

\* Hmac::<Sha256>::new_from_slice: a key of any length is accepted.
new_from_slice(key) == "Ok"

\* HMAC-SHA256 as a keyed function into DigestLen bytes that keeps the
\* (key, message) pairs apart: the digest is the pair it is computed from,
\* laid out over the bytes of a Sha256 output.
HmacSha256(key, message) ==
    LET pair == <<Len(key) % 256>> \o key \o message
    IN  [i \in 1..DigestLen |-> DigestByte(pair, i, 1) % 256]

\* Signer::sign: hex::encode of the MAC of the query string under the secret.
sign(sg, query_string) == HexEncode(HmacSha256(sg.secret_key, query_string))

\* Vec::sort_by(|a, b| a.0.cmp(&b.0)): a stable sort on the key.
RECURSIVE InsertByKey(_, _)
InsertByKey(e, s) ==
    IF s = <<>> THEN <<e>>
    ELSE IF StrLess(e[1], Head(s)[1]) THEN <<e>> \o s
    ELSE <<Head(s)>> \o InsertByKey(e, Tail(s))

\* A sort that is left out: the pairs stay in iteration order.
NoSort(pairs) == pairs

RECURSIVE SortByKey(_)
SortByKey(pairs) ==
    IF pairs = <<>> THEN <<>>
    ELSE InsertByKey(pairs[Len(pairs)],
                     SortByKey(SubSeq(pairs, 1, Len(pairs) - 1)))

\* sign_request up to the sort: the timestamp is inserted, the pairs are
\* collected in the order `iter` in which params.into_iter() yields them, and
\* sorted by key.
SortedQueryParams(params, ts, iter) ==
    SortByKey(MapIter(MapInsert(params, TIMESTAMP, U64ToString(ts)), iter))

\* Signer::sign_request, with `ts` the value get_timestamp returned.
sign_request(sg, params, ts, iter) ==
    LET query_params == SortedQueryParams(params, ts, iter)
        query_string == JoinPairs(query_params)
        signature == sign(sg, query_string)
    IN  [query_params |-> query_params,
         query_string |-> query_string,
         signed_params |-> MapInsert(FromPairs(query_params), SIGNATURE, signature)]


(***************************************************************************)
(* serde_json: texts, the values read from them, and Deserialize           *)
(***************************************************************************)
\* A serde_json::Value as far as the code looks into it: its type, the
\* characters of a string, the integer of a number, the fields of an object.
NoFields == [k \in {} |-> k]
JsonNull == [t |-> "null", s |-> <<>>, n |-> 0, o |-> NoFields]
JsonString(s) == [t |-> "string", s |-> s, n |-> 0, o |-> NoFields]
JsonNumber(n) == [t |-> "number", s |-> <<>>, n |-> n, o |-> NoFields]
JsonBool == [t |-> "bool", s |-> <<>>, n |-> 0, o |-> NoFields]
JsonArray == [t |-> "array", s |-> <<>>, n |-> 0, o |-> NoFields]
JsonObject(o) == [t |-> "object", s |-> <<>>, n |-> 0, o |-> o]

\* A text together with what serde_json::from_str::<Value> makes of it: the
\* value it denotes, or an error when it is not JSON.
Text(raw, value) == [raw |-> raw, json |-> TRUE, value |-> value]
NotJson(raw) == [raw |-> raw, json |-> FALSE, value |-> JsonNull]

\* The fields a Deserialize struct requires, with their JSON types; fields
\* of the text that the struct does not name are ignored.
Fields(T) ==
    CASE T = "ApiErrorResponse" -> [code |-> "number", msg |-> "string"]
      [] T = "ListenKeyResponse" -> [listenKey |-> "string"]
      [] T = "DepthUpdate" ->
            [e |-> "string", E |-> "number", T |-> "number", s |-> "string",
             U |-> "number", u |-> "number", pu |-> "number", b |-> "array",
             a |-> "array"]
      [] T = "TradeStream" ->
            [e |-> "string", E |-> "number", T |-> "number", s |-> "string",
             t |-> "number", p |-> "string", q |-> "string", X |-> "number",
             Y |-> "number", m |-> "bool"]
      [] T = "KlineStream" ->
            [e |-> "string", E |-> "number", s |-> "string", k |-> "object"]
      [] T = "TickerStream" ->
            [e |-> "string", E |-> "number", s |-> "string", p |-> "string",
             P |-> "string", w |-> "string", c |-> "string", Q |-> "string",
             o |-> "string", h |-> "string", l |-> "string", v |-> "string",
             q |-> "string", O |-> "number", C |-> "number", F |-> "number",
             L |-> "number", n |-> "number"]
      [] T = "AccountUpdate" ->
            [e |-> "string", E |-> "number", T |-> "number", a |-> "object"]
      [] T = "OrderUpdate" ->
            [e |-> "string", E |-> "number", T |-> "number", o |-> "object"]

\* serde_json::from_value::<T>(value).is_ok(); a serde_json::Value takes
\* every value.
from_value(T, value) ==
    IF T = "Value" THEN TRUE
    ELSE /\ value.t = "object"
         /\ \A f \in DOMAIN Fields(T) :
               f \in DOMAIN value.o /\ value.o[f].t = Fields(T)[f]

\* serde_json::from_str::<T>(text).is_ok()
from_str(T, text) == text.json /\ from_value(T, text.value)

(***************************************************************************)
(* client/http.rs                                                          *)
(***************************************************************************)
\* The parameter sets a caller can pass: at most MaxParams of these keys.
CallerKeys == {LISTENKEY, SIGNATURE, TIMESTAMP, TYPE}
Values == {BUY, ONE}
ParamSets ==
    UNION {[S -> Values] : S \in {T \in SUBSET CallerKeys : Cardinality(T) <= MaxParams}}

\* params: Option<HashMap<String, String>>
ParamOptions ==
    {[some |-> FALSE, map |-> EmptyMap]} \cup {[some |-> TRUE, map |-> m] : m \in ParamSets}

\* params.unwrap_or_default(), and the if-let that passes HashMap::new() for None
UnwrapOrDefault(params) == IF params.some THEN params.map ELSE EmptyMap

Endpoints == {"/fapi/v1/listenKey"}

\* Response bodies: an exchange error, a listen key, a body that is both, an
\* empty object, an error whose code is a string, an error without msg, an
\* array, a gateway's page, and the empty body.
API_ERROR == Text(<<123, 34, 99, 111, 100, 101, 34, 58, 45, 49, 44, 34, 109, 115, 103, 34, 58, 34, 120, 34, 125>>,
                  JsonObject([code |-> JsonNumber(-1), msg |-> JsonString(<<120>>)]))
ListenKeyBody(k) == Text(<<123, 34, 108, 105, 115, 116, 101, 110, 75, 101, 121, 34, 58, 34>> \o k \o <<34, 125>>,
                         JsonObject([listenKey |-> JsonString(k)]))
LISTEN_KEY_A == ListenKeyBody(<<97>>)
KEY_WITH_CODE == Text(<<123, 34, 99, 111, 100, 101, 34, 58, 55, 44, 34, 109, 115, 103, 34, 58, 34, 34, 44, 34, 108, 105, 115, 116, 101, 110, 75, 101, 121, 34, 58, 34, 97, 34, 125>>,
                      JsonObject([code |-> JsonNumber(7), msg |-> JsonString(<<>>),
                                  listenKey |-> JsonString(<<97>>)]))
EMPTY_OBJECT == Text(<<123, 125>>, JsonObject(NoFields))
CODE_AS_STRING == Text(<<123, 34, 99, 111, 100, 101, 34, 58, 34, 55, 34, 44, 34, 109, 115, 103, 34, 58, 34, 120, 34, 125>>,
                       JsonObject([code |-> JsonString(<<55>>), msg |-> JsonString(<<120>>)]))
CODE_ONLY == Text(<<123, 34, 99, 111, 100, 101, 34, 58, 55, 125>>, JsonObject([code |-> JsonNumber(7)]))
EMPTY_ARRAY == Text(<<91, 93>>, JsonArray)
GATEWAY_PAGE == NotJson(<<60, 104, 116, 109, 108, 62>>)
EMPTY_BODY == NotJson(<<>>)

\* A reqwest::Response: whether send() returned one, whether its body could
\* be read, its status, its body, and the type T the caller deserializes to.
SendFailure ==
    [sent_ok |-> FALSE, text_ok |-> FALSE, status |-> 0, text |-> EMPTY_BODY,
     T |-> "ListenKeyResponse"]
BodyFailure(status) ==
    [sent_ok |-> TRUE, text_ok |-> FALSE, status |-> status, text |-> EMPTY_BODY,
     T |-> "ListenKeyResponse"]
Received(status, text, T) ==
    [sent_ok |-> TRUE, text_ok |-> TRUE, status |-> status, text |-> text, T |-> T]

\* What the network does with a request: the send fails, or a response comes
\* back whose body may fail to be read; the body may or may not deserialize
\* into the caller's type T, and may or may not be a {code, msg} object.
NetOutcomes ==
    {SendFailure, BodyFailure(200)}
    \cup {Received(status, text, "ListenKeyResponse") :
            status \in {200, 400},
            text \in {LISTEN_KEY_A, API_ERROR, KEY_WITH_CODE, GATEWAY_PAGE}}

\* StatusCode::is_success
is_success(status) == status >= 200 /\ status <= 299

\* A Result<T>: Ok with the value, or the variant of BinanceError with what
\* it carries (Api: code and msg; Unknown: its message).
ResultOf(kind) ==
    [kind |-> kind, value |-> JsonNull, code |-> 0, msg |-> <<>>, message |-> <<>>]

\* impl From<ApiErrorResponse> for BinanceError
FromApiErrorResponse(error_response) ==
    [ResultOf("Api") EXCEPT !.code = error_response.code.n, !.msg = error_response.msg.s]

\* A handle_response that takes a body of the caller's type whatever the
\* status.
handle_response_body_first(response) ==
    IF ~response.text_ok THEN ResultOf("Http")
    ELSE IF from_str(response.T, response.text)
         THEN [ResultOf("Ok") EXCEPT !.value = response.text.value]
         ELSE IF is_success(response.status) THEN ResultOf("Json")
         ELSE IF from_str("ApiErrorResponse", response.text)
              THEN FromApiErrorResponse(response.text.value.o)
              ELSE [ResultOf("Unknown") EXCEPT !.message =
                        <<72, 84, 84, 80, 32>> \o U64ToString(response.status) \o <<32, 45, 32>>
                            \o response.text.raw]

\* HttpClient::handle_response
handle_response(response) ==
    IF ~response.text_ok THEN ResultOf("Http")
    ELSE IF is_success(response.status)
         THEN (IF from_str(response.T, response.text)
               THEN [ResultOf("Ok") EXCEPT !.value = response.text.value]
               ELSE ResultOf("Json"))
         ELSE (IF from_str("ApiErrorResponse", response.text)
               THEN FromApiErrorResponse(response.text.value.o)
               ELSE [ResultOf("Unknown") EXCEPT !.message =
                        <<72, 84, 84, 80, 32>> \o U64ToString(response.status) \o <<32, 45, 32>>
                            \o response.text.raw])

\* request.send().await? followed by handle_response: the variant of the
\* Result the signed call returns.
SendAndHandle(net) == IF ~net.sent_ok THEN "Http" ELSE handle_response(net).kind

\* The responses handle_response is checked on: statuses on both sides of
\* the success range, every body above, both types a caller asks for, and a
\* body that cannot be read.
Statuses == {199, 200, 201, 299, 300, 400, 404, 500}
Bodies ==
    {API_ERROR, LISTEN_KEY_A, KEY_WITH_CODE, EMPTY_OBJECT, CODE_AS_STRING,
     CODE_ONLY, EMPTY_ARRAY, GATEWAY_PAGE, EMPTY_BODY}
CallerTypes == {"ListenKeyResponse", "Value"}
Responses ==
    {BodyFailure(status) : status \in Statuses}
    \cup {Received(status, text, T) :
            status \in Statuses, text \in Bodies, T \in CallerTypes}

\* handle_response is called with a response and returns.
HandleResponse ==
    /\ handled.kind = "none"
    /\ handled' = handle_response(reply)
    /\ UNCHANGED <<reply, httpVars, lkVars, wsVars, apiVars>>

\* A gate that lets every call through.
SignerAlwaysAvailable(sg) == TRUE

\* self.signer.as_ref().ok_or(...)? : is there a signer to borrow
SignerAvailable(sg) == sg.some

NoCall ==
    [method |-> "none", endpoint |-> "", params |-> [some |-> FALSE, map |-> EmptyMap],
     result |-> "none", signer_called |-> FALSE, request_sent |-> FALSE,
     timestamp |-> 0, query_params |-> <<>>, query_string |-> <<>>,
     sent_params |-> EmptyMap, carrier |-> "none", api_key_header |-> <<>>,
     iter_order |-> <<>>, earlier_timestamp |-> 0]

\* The early return of a signed call made without credentials.
AuthenticationError(method, endpoint, params) ==
    [NoCall EXCEPT !.method = method, !.endpoint = endpoint, !.params = params,
                   !.result = "Authentication",
                   !.earlier_timestamp = last.earlier_timestamp]

\* get_signed and post_signed: signer.sign_request(params), then the request.
ViaSignRequest(method, carrier, endpoint, params, iter, net) ==
    LET timestamp == get_timestamp(now)
        signed == sign_request(signer, UnwrapOrDefault(params), timestamp, iter)
    IN  [method |-> method, endpoint |-> endpoint, params |-> params,
         result |-> SendAndHandle(net), signer_called |-> TRUE, request_sent |-> TRUE,
         timestamp |-> timestamp, query_params |-> signed.query_params,
         query_string |-> signed.query_string, sent_params |-> signed.signed_params,
         carrier |-> carrier, api_key_header |-> signer.api_key,
         iter_order |-> iter, earlier_timestamp |-> last.earlier_timestamp]

\* put_signed and delete_signed: the timestamp, the query string and the
\* signature are built in place, from the map's own iteration order.
SignedInPlace(method, endpoint, params, iter, net) ==
    LET timestamp == get_timestamp(now)
        query_params == MapInsert(UnwrapOrDefault(params), TIMESTAMP, U64ToString(timestamp))
        query_string == build_query_string_from_map(query_params, iter)
        signature == sign(signer, query_string)
    IN  [method |-> method, endpoint |-> endpoint, params |-> params,
         result |-> SendAndHandle(net), signer_called |-> TRUE, request_sent |-> TRUE,
         timestamp |-> timestamp, query_params |-> MapIter(query_params, iter),
         query_string |-> query_string,
         sent_params |-> MapInsert(query_params, SIGNATURE, signature),
         carrier |-> "query", api_key_header |-> signer.api_key,
         iter_order |-> iter, earlier_timestamp |-> last.earlier_timestamp]

\* The map whose iteration order a signed call depends on.
Stamped(params) == MapInsert(UnwrapOrDefault(params), TIMESTAMP, U64ToString(get_timestamp(now)))

get_signed ==
    \E endpoint \in Endpoints, params \in ParamOptions :
        /\ last.method = "none"
        /\ IF ~SignerAvailable(signer)
           THEN last' = AuthenticationError("GET", endpoint, params)
           ELSE \E iter \in IterOrders(Stamped(params)), net \in NetOutcomes :
                    last' = ViaSignRequest("GET", "query", endpoint, params, iter, net)
        /\ UNCHANGED <<signer, now>>
        /\ UNCHANGED <<lkVars, responseVars, apiVars, wsVars>>

post_signed ==
    \E endpoint \in Endpoints, params \in ParamOptions :
        /\ last.method = "none"
        /\ IF ~SignerAvailable(signer)
           THEN last' = AuthenticationError("POST", endpoint, params)
           ELSE \E iter \in IterOrders(Stamped(params)), net \in NetOutcomes :
                    last' = ViaSignRequest("POST", "form", endpoint, params, iter, net)
        /\ UNCHANGED <<signer, now>>
        /\ UNCHANGED <<lkVars, responseVars, apiVars, wsVars>>

put_signed ==
    \E endpoint \in Endpoints, params \in ParamOptions :
        /\ last.method = "none"
        /\ IF ~SignerAvailable(signer)
           THEN last' = AuthenticationError("PUT", endpoint, params)
           ELSE \E iter \in IterOrders(Stamped(params)), net \in NetOutcomes :
                    last' = SignedInPlace("PUT", endpoint, params, iter, net)
        /\ UNCHANGED <<signer, now>>
        /\ UNCHANGED <<lkVars, responseVars, apiVars, wsVars>>

delete_signed ==
    \E endpoint \in Endpoints, params \in ParamOptions :
        /\ last.method = "none"
        /\ IF ~SignerAvailable(signer)
           THEN last' = AuthenticationError("DELETE", endpoint, params)
           ELSE \E iter \in IterOrders(Stamped(params)), net \in NetOutcomes :
                    last' = SignedInPlace("DELETE", endpoint, params, iter, net)
        /\ UNCHANGED <<signer, now>>
        /\ UNCHANGED <<lkVars, responseVars, apiVars, wsVars>>

\* The caller takes the Result of the call: the HttpClient holds no per-call
\* state, so nothing of one call is left when the next one starts.  The
\* timestamp a signed request carried is remembered for comparison only.
Return ==
    /\ last.method # "none"
    /\ last' = [NoCall EXCEPT !.earlier_timestamp =
                    IF last.signer_called THEN last.timestamp ELSE last.earlier_timestamp]
    /\ UNCHANGED <<signer, now>>
    /\ UNCHANGED <<lkVars, responseVars, apiVars, wsVars>>

\* The system clock moves on between calls.
Tick ==
    /\ now < MaxNow
    /\ now' = now + 1
    /\ UNCHANGED <<signer, last>>
    /\ UNCHANGED <<lkVars, responseVars, apiVars, wsVars>>

(***************************************************************************)
(* websocket/user_data.rs: the state of a UserDataStreamManager            *)
(***************************************************************************)
\* Instants and durations are counted in units of 15 minutes.
UnitSeconds == 15 * 60

\* Duration::from_secs(30 * 60): the interval a new manager and the default
\* UserDataStreamConfig start with.
DefaultKeepaliveInterval == (30 * 60) \div UnitSeconds

\* Duration::from_secs(60 * 60) in is_expired
ExpiryWindow == (60 * 60) \div UnitSeconds

\* sleep(Duration::from_secs(30 * 60)) in start_keepalive_task
TaskSleep == (30 * 60) \div UnitSeconds

\* Option<String> and Option<Instant>
NoKey == [some |-> FALSE, key |-> <<>>]
SomeKey(k) == [some |-> TRUE, key |-> k]
NoInstant == [some |-> FALSE, at |-> 0]
SomeInstant(t) == [some |-> TRUE, at |-> t]

\* No manager operation is under way or waiting for its result to be taken.
\* follows_maintain: the operation before was a maintain() that returned Ok,
\* and no time has passed since it returned.
NoOp ==
    [name |-> "none", result |-> "none", value |-> NoKey, requests |-> <<>>,
     key_before |-> NoKey, anchor_before |-> NoInstant, started |-> 0,
     follows_maintain |-> FALSE]

\* No UserDataStream is driven on a cadence.
NoSession == [started |-> FALSE, cadence |-> 0, key |-> NoKey, next_call |-> 0]

\* UserDataStreamManager::new
NewManager ==
    /\ listen_key = NoKey
    /\ last_keepalive = NoInstant
    /\ keepalive_interval = DefaultKeepaliveInterval
    /\ clock = 0
    /\ task = "idle"
    /\ op = NoOp
    /\ session = NoSession

\* The listen keys the exchange hands out.
ListenKeys == {<<97>>, <<98>>}

\* What the exchange and the network do with a manager's request: the send
\* fails, the request is accepted and answered with a listen key, or it is
\* rejected with a {code, msg} body.
ManagerNetOutcomes ==
    {SendFailure, Received(400, API_ERROR, "ListenKeyResponse")}
    \cup {Received(200, ListenKeyBody(k), "ListenKeyResponse") : k \in ListenKeys}

\* The choices made outside the manager during one request: the outcome and
\* the time the request takes.
Choices == [net : ManagerNetOutcomes, d : 0..MaxDelay]

\* The same choices for a call that deserializes into serde_json::Value.
AsValue(ch) == [ch EXCEPT !.net.T = "Value"]

\* response.listen_key of the ListenKeyResponse a creation received
ResponseListenKey(ch) == handle_response(ch.net).value.o.listenKey.s

\* The result of a signed call of the HttpClient as the manager sees it.
SignedRequest(ch) ==
    IF ~SignerAvailable(signer) THEN "Authentication" ELSE SendAndHandle(ch.net)

\* The Instant at which the call has returned: a call without a signer
\* returns at once.
Returned(m, ch) == IF SignerAvailable(signer) THEN m.clock + ch.d ELSE m.clock

Request(kind, method, key, result) ==
    [kind |-> kind, method |-> method, listenKey |-> key, result |-> result]

\* The manager's fields and the current Instant.
Manager == [listen_key |-> listen_key, last_keepalive |-> last_keepalive, clock |-> clock]

\* Instant::elapsed
Elapsed(m) == m.clock - m.last_keepalive.at

\* A creation that stores the key and leaves the anchor as it was.
create_without_anchor(m, ch) ==
    IF SignedRequest(ch) = "Ok"
    THEN [m |-> [m EXCEPT !.listen_key = SomeKey(ResponseListenKey(ch)), !.clock = Returned(m, ch)],
          result |-> "Ok", value |-> SomeKey(ResponseListenKey(ch)),
          requests |-> <<Request("create", "POST", NoKey, "Ok")>>]
    ELSE [m |-> [m EXCEPT !.clock = Returned(m, ch)],
          result |-> SignedRequest(ch), value |-> NoKey,
          requests |-> <<Request("create", "POST", NoKey, SignedRequest(ch))>>]

\* A creation that drops the stored key and the anchor when it fails.
create_forgets_on_error(m, ch) ==
    IF SignedRequest(ch) = "Ok"
    THEN [m |-> [listen_key |-> SomeKey(ResponseListenKey(ch)),
                 last_keepalive |-> SomeInstant(Returned(m, ch)),
                 clock |-> Returned(m, ch)],
          result |-> "Ok", value |-> SomeKey(ResponseListenKey(ch)),
          requests |-> <<Request("create", "POST", NoKey, "Ok")>>]
    ELSE [m |-> [listen_key |-> NoKey, last_keepalive |-> NoInstant,
                 clock |-> Returned(m, ch)],
          result |-> SignedRequest(ch), value |-> NoKey,
          requests |-> <<Request("create", "POST", NoKey, SignedRequest(ch))>>]

\* UserDataStreamManager::create_listen_key
create_listen_key(m, ch) ==
    LET result == SignedRequest(ch)
        t == Returned(m, ch)
        requests == <<Request("create", "POST", NoKey, result)>>
    IN  IF result = "Ok"
        THEN [m |-> [listen_key |-> SomeKey(ResponseListenKey(ch)), last_keepalive |-> SomeInstant(t),
                     clock |-> t],
              result |-> "Ok", value |-> SomeKey(ResponseListenKey(ch)), requests |-> requests]
        ELSE [m |-> [m EXCEPT !.clock = t],
              result |-> result, value |-> NoKey, requests |-> requests]

\* A keepalive that forgets to move the anchor.
keepalive_without_anchor(m, ch) ==
    IF m.listen_key.some
    THEN [m |-> [m EXCEPT !.clock = Returned(m, ch)],
          result |-> SignedRequest(AsValue(ch)), value |-> NoKey,
          requests |-> <<Request("keepalive", "PUT", m.listen_key, SignedRequest(AsValue(ch)))>>]
    ELSE [m |-> m, result |-> "Api", value |-> NoKey, requests |-> <<>>]

\* A keepalive that sets the anchor although no key is stored.
keepalive_anchors_without_key(m, ch) ==
    IF m.listen_key.some
    THEN IF SignedRequest(AsValue(ch)) = "Ok"
         THEN [m |-> [m EXCEPT !.last_keepalive = SomeInstant(Returned(m, ch)),
                               !.clock = Returned(m, ch)],
               result |-> "Ok", value |-> NoKey,
               requests |-> <<Request("keepalive", "PUT", m.listen_key, "Ok")>>]
         ELSE [m |-> [m EXCEPT !.clock = Returned(m, ch)],
               result |-> SignedRequest(AsValue(ch)), value |-> NoKey,
               requests |-> <<Request("keepalive", "PUT", m.listen_key,
                                       SignedRequest(AsValue(ch)))>>]
    ELSE [m |-> [m EXCEPT !.last_keepalive = SomeInstant(m.clock)],
          result |-> "Api", value |-> NoKey, requests |-> <<>>]

\* UserDataStreamManager::keepalive_listen_key
keepalive_listen_key(m, ch) ==
    IF m.listen_key.some
    THEN LET result == SignedRequest(AsValue(ch))
             t == Returned(m, ch)
             requests == <<Request("keepalive", "PUT", m.listen_key, result)>>
         IN  IF result = "Ok"
             THEN [m |-> [m EXCEPT !.last_keepalive = SomeInstant(t), !.clock = t],
                   result |-> "Ok", value |-> NoKey, requests |-> requests]
             ELSE [m |-> [m EXCEPT !.clock = t],
                   result |-> result, value |-> NoKey, requests |-> requests]
    ELSE [m |-> m, result |-> "Api", value |-> NoKey, requests |-> <<>>]

\* A close that clears the key and leaves the anchor as it was.
close_keeps_anchor(m, ch) ==
    IF m.listen_key.some
    THEN IF SignedRequest(AsValue(ch)) = "Ok"
         THEN [m |-> [m EXCEPT !.listen_key = NoKey, !.clock = Returned(m, ch)],
               result |-> "Ok", value |-> NoKey,
               requests |-> <<Request("close", "DELETE", m.listen_key, "Ok")>>]
         ELSE [m |-> [m EXCEPT !.clock = Returned(m, ch)],
               result |-> SignedRequest(AsValue(ch)), value |-> NoKey,
               requests |-> <<Request("close", "DELETE", m.listen_key, SignedRequest(AsValue(ch)))>>]
    ELSE [m |-> m, result |-> "Api", value |-> NoKey, requests |-> <<>>]

\* UserDataStreamManager::close_listen_key
close_listen_key(m, ch) ==
    IF m.listen_key.some
    THEN LET result == SignedRequest(AsValue(ch))
             t == Returned(m, ch)
             requests == <<Request("close", "DELETE", m.listen_key, result)>>
         IN  IF result = "Ok"
             THEN [m |-> [listen_key |-> NoKey, last_keepalive |-> NoInstant, clock |-> t],
                   result |-> "Ok", value |-> NoKey, requests |-> requests]
             ELSE [m |-> [m EXCEPT !.clock = t],
                   result |-> result, value |-> NoKey, requests |-> requests]
    ELSE [m |-> m, result |-> "Api", value |-> NoKey, requests |-> <<>>]

\* last_keepalive.elapsed() > interval: due only once the interval is exceeded.
DueStrictly(elapsed, interval) == elapsed > interval

\* last_keepalive.elapsed() >= self.keepalive_interval
Due(elapsed, interval) == elapsed >= interval

\* UserDataStreamManager::get_listen_key
get_listen_key(m, ch1, ch2) ==
    LET first ==
            IF /\ m.last_keepalive.some
               /\ Due(Elapsed(m), keepalive_interval)
               /\ m.listen_key.some
            THEN keepalive_listen_key(m, ch1)
            ELSE [m |-> m, result |-> "Ok", value |-> NoKey, requests |-> <<>>]
    IN  IF first.result # "Ok" THEN first
        ELSE IF first.m.listen_key.some
        THEN [first EXCEPT !.value = first.m.listen_key]
        ELSE LET second == create_listen_key(first.m, ch2)
             IN  [second EXCEPT !.requests = first.requests \o second.requests]

\* UserDataStreamManager::needs_keepalive
needs_keepalive(m) ==
    IF m.last_keepalive.some THEN Due(Elapsed(m), keepalive_interval) ELSE FALSE

\* UserDataStreamManager::current_listen_key
current_listen_key(m) == m.listen_key

\* Expired only once the window is exceeded.
is_expired_strictly(m) ==
    IF m.last_keepalive.some THEN Elapsed(m) > ExpiryWindow ELSE TRUE

\* UserDataStreamManager::is_expired
is_expired(m) ==
    IF m.last_keepalive.some THEN Elapsed(m) >= ExpiryWindow ELSE TRUE

\* A maintain() that re-creates an expired key and never sends a keepalive.
maintain_without_keepalive(m, ch) ==
    IF is_expired(m)
    THEN [create_listen_key(m, ch) EXCEPT !.value = NoKey]
    ELSE [m |-> m, result |-> "Ok", value |-> NoKey, requests |-> <<>>]

\* UserDataStream::maintain
maintain(m, ch) ==
    IF is_expired(m)
    THEN [create_listen_key(m, ch) EXCEPT !.value = NoKey]
    ELSE IF needs_keepalive(m)
    THEN keepalive_listen_key(m, ch)
    ELSE [m |-> m, result |-> "Ok", value |-> NoKey, requests |-> <<>>]

\* A turn that gives up as soon as the keepalive fails, without the attempt
\* to create a new key.
task_turn_without_recreation(m, ch1, ch2) ==
    IF m.listen_key.some
    THEN [keepalive_listen_key(m, ch1) EXCEPT
              !.result = IF keepalive_listen_key(m, ch1).result = "Ok"
                         THEN "running" ELSE "Ok"]
    ELSE [m |-> m, result |-> "running", value |-> NoKey, requests |-> <<>>]

\* One turn of the loop of start_keepalive_task, after its sleep: "running"
\* when the loop goes on, "Ok" when it breaks and Ok(()) is returned.
keepalive_task_turn(m, ch1, ch2) ==
    IF m.listen_key.some
    THEN LET first == keepalive_listen_key(m, ch1)
         IN  IF first.result # "Ok"
             THEN LET second == create_listen_key(first.m, ch2)
                  IN  [m |-> second.m,
                       result |-> IF second.result # "Ok" THEN "Ok" ELSE "running",
                       value |-> NoKey,
                       requests |-> first.requests \o second.requests]
             ELSE [first EXCEPT !.result = "running"]
    ELSE [m |-> m, result |-> "running", value |-> NoKey, requests |-> <<>>]

\* A manager operation has run to its end: the fields take their new values
\* and the operation is recorded with the state it started from.
Finish(name, r) ==
    /\ r.m.clock <= MaxClock
    /\ listen_key' = r.m.listen_key
    /\ last_keepalive' = r.m.last_keepalive
    /\ clock' = r.m.clock
    /\ op' = [name |-> name, result |-> r.result, value |-> r.value,
              requests |-> r.requests, key_before |-> listen_key,
              anchor_before |-> last_keepalive, started |-> clock,
              follows_maintain |-> op.follows_maintain]
    /\ UNCHANGED <<keepalive_interval, httpVars, responseVars, apiVars, wsVars>>

\* The single owner of the manager is free to start an operation.
Idle == task = "idle" /\ op.name = "none"

CreateListenKey ==
    /\ Idle
    /\ \E ch \in Choices : Finish("create_listen_key", create_listen_key(Manager, ch))
    /\ UNCHANGED <<task, session>>

KeepaliveListenKey ==
    /\ Idle
    /\ \E ch \in Choices : Finish("keepalive_listen_key", keepalive_listen_key(Manager, ch))
    /\ UNCHANGED <<task, session>>

CloseListenKey ==
    /\ Idle
    /\ \E ch \in Choices : Finish("close_listen_key", close_listen_key(Manager, ch))
    /\ UNCHANGED <<task, session>>

GetListenKey ==
    /\ Idle
    /\ \E ch1, ch2 \in Choices :
          Finish("get_listen_key", get_listen_key(Manager, ch1, ch2))
    /\ UNCHANGED <<task, session>>

Maintain ==
    /\ Idle
    /\ \E ch \in Choices : Finish("maintain", maintain(Manager, ch))
    /\ UNCHANGED <<task, session>>

\* UserDataStreamManager::set_keepalive_interval, and the interval that
\* UserDataStream::new takes from its configuration.
SetKeepaliveInterval ==
    /\ Idle
    /\ \E interval \in 0..MaxInterval : keepalive_interval' = interval
    /\ op' = [op EXCEPT !.follows_maintain = FALSE]
    /\ UNCHANGED <<session, listen_key, last_keepalive, clock, task,
                   httpVars, responseVars, apiVars, wsVars>>

\* start_keepalive_task is called: the loop is entered and goes to sleep.
StartKeepaliveTask ==
    /\ Idle
    /\ task' = "sleep"
    /\ op' = [op EXCEPT !.follows_maintain = FALSE]
    /\ UNCHANGED <<session, listen_key, last_keepalive, keepalive_interval, clock,
                   httpVars, responseVars, apiVars, wsVars>>

\* The sleep of the loop ends, after 30 minutes or somewhat more, and the
\* body of the loop runs once.
KeepaliveTaskTurn ==
    /\ task = "sleep"
    /\ \E overrun \in 0..MaxDelay, ch1, ch2 \in Choices :
          LET woken == [Manager EXCEPT !.clock = clock + TaskSleep + overrun]
              r == keepalive_task_turn(woken, ch1, ch2)
          IN  /\ Finish("start_keepalive_task", r)
              /\ task' = IF r.result = "running" THEN "sleep" ELSE "idle"
    /\ UNCHANGED session

\* The caller takes the result of the operation that has returned.
TakeResult ==
    /\ task = "idle"
    /\ op.name # "none"
    /\ op' = [NoOp EXCEPT !.follows_maintain = (op.name = "maintain" /\ op.result = "Ok")]
    /\ UNCHANGED <<session, listen_key, last_keepalive, keepalive_interval, clock, task,
                   httpVars, responseVars, apiVars, wsVars>>

\* Time passes between two operations.
Elapse ==
    /\ Idle
    /\ clock < MaxClock
    /\ clock' = clock + 1
    /\ op' = [op EXCEPT !.follows_maintain = FALSE]
    /\ UNCHANGED <<session, listen_key, last_keepalive, keepalive_interval, task,
                   httpVars, responseVars, apiVars, wsVars>>

(***************************************************************************)
(* websocket/user_data.rs: a UserDataStream whose caller calls maintain()  *)
(* on a fixed cadence, every request succeeding                            *)
(***************************************************************************)
\* The choices in which the request is answered with success.
Succeeding == {ch \in Choices : SendAndHandle(ch.net) = "Ok"}

\* UserDataStream::start, answered with success: the cadence starts when it
\* returns.
Start ==
    /\ ~session.started
    /\ \E ch1, ch2 \in Succeeding :
          LET r == get_listen_key(Manager, ch1, ch2)
          IN  /\ Finish("start", r)
              /\ session' = [session EXCEPT !.started = TRUE, !.key = r.value,
                                            !.next_call = r.m.clock + session.cadence]
    /\ UNCHANGED task

\* The caller's scheduling loop waits for the Instant of its next call.
WaitForCadence ==
    /\ session.started
    /\ clock < session.next_call
    /\ session.next_call <= MaxClock
    /\ clock' = session.next_call
    /\ UNCHANGED <<session, listen_key, last_keepalive, keepalive_interval, task, op,
                   httpVars, responseVars, apiVars, wsVars>>

\* UserDataStream::maintain, called when its Instant has come; the next call
\* is due one cadence after this one.
MaintainOnCadence ==
    /\ session.started
    /\ clock >= session.next_call
    /\ \E ch \in Succeeding :
          /\ Finish("maintain", maintain(Manager, ch))
          /\ session' = [session EXCEPT !.next_call = clock + session.cadence]
    /\ UNCHANGED task

(***************************************************************************)
(* websocket/types.rs and websocket/stream.rs: parse_message               *)
(***************************************************************************)
\* str::contains: the pattern occurs somewhere in the string.
contains(s, pat) ==
    \E i \in 0..(Len(s) - Len(pat)) : SubSeq(s, i + 1, i + Len(pat)) = pat

\* The variants of WebSocketMessage that carry a struct, and that struct.
StructOf(variant) ==
    CASE variant = "DepthUpdate" -> "DepthUpdate"
      [] variant = "Trade" -> "TradeStream"
      [] variant = "Kline" -> "KlineStream"
      [] variant = "Ticker" -> "TickerStream"
      [] variant = "AccountUpdate" -> "AccountUpdate"
      [] variant = "OrderUpdate" -> "OrderUpdate"

\* A Result<WebSocketMessage>: Ok with the variant and the value it was
\* deserialized from, or the variant of BinanceError with its message.
WsOk(variant, value) ==
    [kind |-> "Ok", variant |-> variant, value |-> value, message |-> <<>>]
WsErr(kind, message) ==
    [kind |-> kind, variant |-> "none", value |-> JsonNull, message |-> message]

\* serde_json::from_value(data.clone())? wrapped in a variant
Decode(variant, data) ==
    IF from_value(StructOf(variant), data)
    THEN WsOk(variant, data)
    ELSE WsErr("Json", <<>>)

\* The substrings parse_stream_data looks for, in the order of its if-chain,
\* and the literals parse_event_data matches.
AT_DEPTH == <<64, 100, 101, 112, 116, 104>>
AT_TRADE == <<64, 116, 114, 97, 100, 101>>
AT_KLINE == <<64, 107, 108, 105, 110, 101>>
AT_TICKER == <<64, 116, 105, 99, 107, 101, 114>>
DEPTH_UPDATE == <<100, 101, 112, 116, 104, 85, 112, 100, 97, 116, 101>>
TRADE == <<116, 114, 97, 100, 101>>
KLINE == <<107, 108, 105, 110, 101>>
TICKER_24HR == <<50, 52, 104, 114, 84, 105, 99, 107, 101, 114>>
ACCOUNT_UPDATE == <<65, 67, 67, 79, 85, 78, 84, 95, 85, 80, 68, 65, 84, 69>>
ORDER_TRADE_UPDATE == <<79, 82, 68, 69, 82, 95, 84, 82, 65, 68, 69, 95, 85, 80, 68, 65, 84, 69>>

\* WebSocketClient::parse_stream_data
parse_stream_data(stream_name, data) ==
    IF contains(stream_name, AT_DEPTH) THEN Decode("DepthUpdate", data)
    ELSE IF contains(stream_name, AT_TRADE) THEN Decode("Trade", data)
    ELSE IF contains(stream_name, AT_KLINE) THEN Decode("Kline", data)
    ELSE IF contains(stream_name, AT_TICKER) THEN Decode("Ticker", data)
    ELSE WsErr("WebSocket", <<85, 110, 107, 110, 111, 119, 110, 32, 115, 116, 114, 101, 97, 109, 58, 32>> \o stream_name)

\* WebSocketClient::parse_event_data
parse_event_data(event_type, data) ==
    CASE event_type = DEPTH_UPDATE -> Decode("DepthUpdate", data)
      [] event_type = TRADE -> Decode("Trade", data)
      [] event_type = KLINE -> Decode("Kline", data)
      [] event_type = TICKER_24HR -> Decode("Ticker", data)
      [] event_type = ACCOUNT_UPDATE -> Decode("AccountUpdate", data)
      [] event_type = ORDER_TRADE_UPDATE -> Decode("OrderUpdate", data)
      [] OTHER -> WsErr("WebSocket", <<85, 110, 107, 110, 111, 119, 110, 32, 101, 118, 101, 110, 116, 32, 116, 121, 112, 101, 58, 32>> \o event_type)

\* Value::get(key).is_some(): the value is an object that has the field.
Has(value, field) == value.t = "object" /\ field \in DOMAIN value.o

\* Value::as_str().unwrap_or("")
AsStrOrEmpty(value) == IF value.t = "string" THEN value.s ELSE <<>>

\* A parse_message that looks at the event type before the stream envelope.
parse_message_event_first(text) ==
    IF ~text.json THEN WsErr("Json", <<>>)
    ELSE LET value == text.value
         IN  IF Has(value, "e") /\ value.o.e.t = "string"
             THEN parse_event_data(value.o.e.s, value)
             ELSE IF Has(value, "stream")
             THEN parse_stream_data(AsStrOrEmpty(value.o.stream),
                                    IF Has(value, "data") THEN value.o.data ELSE value)
             ELSE IF Has(value, "ping") THEN WsOk("Ping", JsonNull)
             ELSE IF Has(value, "pong") THEN WsOk("Pong", JsonNull)
             ELSE WsErr("WebSocket", <<85, 110, 107, 110, 111, 119, 110, 32, 109, 101, 115, 115, 97, 103, 101, 32, 102, 111, 114, 109, 97, 116>>)

\* WebSocketClient::parse_message
parse_message(text) ==
    IF ~text.json THEN WsErr("Json", <<>>)
    ELSE LET value == text.value
         IN  IF Has(value, "stream")
             THEN LET stream_name == AsStrOrEmpty(value.o.stream)
                      data == IF Has(value, "data") THEN value.o.data ELSE value
                  IN  parse_stream_data(stream_name, data)
             ELSE IF Has(value, "e") /\ value.o.e.t = "string"
             THEN parse_event_data(value.o.e.s, value)
             ELSE IF Has(value, "ping") THEN WsOk("Ping", JsonNull)
             ELSE IF Has(value, "pong") THEN WsOk("Pong", JsonNull)
             ELSE WsErr("WebSocket", <<85, 110, 107, 110, 111, 119, 110, 32, 109, 101, 115, 115, 97, 103, 101, 32, 102, 111, 114, 109, 97, 116>>)

\* The text of a frame with what serde_json::from_str::<Value> makes of it:
\* the value it denotes, or an error when it is not JSON.
FrameText(value) == [json |-> TRUE, value |-> value]
NOT_JSON == [json |-> FALSE, value |-> JsonNull]

\* The messages parse_message is checked on.  A value of each JSON type:
Sample(type) ==
    CASE type = "string" -> JsonString(<<49>>)
      [] type = "number" -> JsonNumber(1)
      [] type = "bool" -> JsonBool
      [] type = "array" -> JsonArray
      [] type = "object" -> JsonObject(NoFields)

\* the fields of an object that deserializes into struct T,
PayloadFields(T) == [f \in DOMAIN Fields(T) |-> Sample(Fields(T)[f])]

\* an object with one more field, or with one field less,
With(o, field, value) ==
    [f \in (DOMAIN o) \cup {field} |-> IF f = field THEN value ELSE o[f]]
Without(o, field) == [f \in (DOMAIN o) \ {field} |-> o[f]]

\* the event payloads of the exchange and an object without fields,
Structs ==
    {"DepthUpdate", "TradeStream", "KlineStream", "TickerStream", "AccountUpdate",
     "OrderUpdate"}
Payloads == {PayloadFields(T) : T \in Structs} \cup {NoFields}

\* the values an 'e' field takes: every literal, one that is not known, and
\* one that is not a string,
EventTypes ==
    {JsonString(e) : e \in {DEPTH_UPDATE, TRADE, KLINE, TICKER_24HR, ACCOUNT_UPDATE,
                            ORDER_TRADE_UPDATE, <<97, 103, 103, 84, 114, 97, 100, 101>>}}
    \cup {JsonNumber(1)}

\* each payload with each 'e' and without one,
Events ==
    {With(o, "e", e) : o \in Payloads, e \in EventTypes}
    \cup {Without(o, "e") : o \in Payloads}

\* the values a 'stream' field takes: a name of each kind, a name with two
\* of the substrings, names with none of them, and one that is not a string,
StreamNames ==
    {JsonString(n) : n \in {<<98, 116, 99, 117, 115, 100, 116, 64, 100, 101, 112, 116, 104, 53, 64, 49, 48, 48, 109, 115>>, <<98, 116, 99, 117, 115, 100, 116, 64, 116, 114, 97, 100, 101>>,
                            <<98, 116, 99, 117, 115, 100, 116, 64, 107, 108, 105, 110, 101, 95, 49, 109>>, <<98, 116, 99, 117, 115, 100, 116, 64, 116, 105, 99, 107, 101, 114>>,
                            <<33, 116, 105, 99, 107, 101, 114, 64, 97, 114, 114>>, <<116, 114, 97, 100, 101, 64, 100, 101, 112, 116, 104>>, <<98, 116, 99, 117, 115, 100, 116, 64, 97, 103, 103, 84, 114, 97, 100, 101>>,
                            <<>>}}
    \cup {JsonNull}

\* the values a 'data' field takes,
DataValues ==
    {JsonObject(PayloadFields(T)) :
        T \in {"DepthUpdate", "TradeStream", "KlineStream", "TickerStream"}}
    \cup {JsonObject(NoFields), JsonArray}

\* and an object with or without each of the envelope and marker fields.
RECURSIVE Extended(_, _)
Extended(objects, extras) ==
    IF extras = <<>> THEN objects
    ELSE LET field == Head(extras)[1]
             values == Head(extras)[2]
         IN  Extended(objects \cup {With(o, field, v) : o \in objects, v \in values},
                      Tail(extras))

Messages ==
    {FrameText(JsonObject(o)) :
        o \in Extended(Events, << <<"stream", StreamNames>>, <<"data", DataValues>>,
                                  <<"ping", {JsonNumber(1)}>>,
                                  <<"pong", {JsonNumber(1)}>> >>)}
    \cup {FrameText(JsonArray), NOT_JSON}

\* No text has been given to parse_message.
NotParsed == WsErr("none", <<>>)

\* parse_message is called with a text and returns.
ParseMessage ==
    /\ parsed = NotParsed
    /\ parsed' = parse_message(frame_text)
    /\ UNCHANGED <<frame_text, httpVars, lkVars, responseVars, apiVars, builderVars, loopVars>>

(***************************************************************************)
(* websocket/stream.rs: topic names, connection URLs and StreamBuilder     *)
(***************************************************************************)
WS_BASE_URL == <<119, 115, 115, 58, 47, 47, 102, 115, 116, 114, 101, 97, 109, 46, 98, 105, 110, 97, 110, 99, 101, 46, 99, 111, 109, 47, 119, 115, 47>>
WS_TESTNET_URL == <<119, 115, 115, 58, 47, 47, 115, 116, 114, 101, 97, 109, 46, 98, 105, 110, 97, 110, 99, 101, 102, 117, 116, 117, 114, 101, 46, 99, 111, 109, 47, 119, 115, 47>>

\* str::to_lowercase on ASCII: 'A'..'Z' become 'a'..'z'.
to_lowercase(s) == [i \in 1..Len(s) |-> IF s[i] \in 65..90 THEN s[i] + 32 ELSE s[i]]

\* levels: Option<u32>
NoLevels == [some |-> FALSE, n |-> 0]
SomeLevels(n) == [some |-> TRUE, n |-> n]

\* A depth topic without the update speed.
depth_stream_without_speed(symbol, levels) ==
    IF levels.some
    THEN to_lowercase(symbol) \o <<64, 100, 101, 112, 116, 104>> \o U64ToString(levels.n)
    ELSE to_lowercase(symbol) \o <<64, 100, 101, 112, 116, 104>>

\* WebSocketClient::depth_stream
depth_stream(symbol, levels) ==
    IF levels.some
    THEN to_lowercase(symbol) \o <<64, 100, 101, 112, 116, 104>> \o U64ToString(levels.n) \o <<64, 49, 48, 48, 109, 115>>
    ELSE to_lowercase(symbol) \o <<64, 100, 101, 112, 116, 104, 64, 49, 48, 48, 109, 115>>

\* WebSocketClient::trade_stream
trade_stream(symbol) == to_lowercase(symbol) \o <<64, 116, 114, 97, 100, 101>>

\* WebSocketClient::kline_stream
kline_stream(symbol, interval) == to_lowercase(symbol) \o <<64, 107, 108, 105, 110, 101, 95>> \o interval

\* WebSocketClient::ticker_stream
ticker_stream(symbol) == to_lowercase(symbol) \o <<64, 116, 105, 99, 107, 101, 114>>

\* WebSocketClient::all_tickers_stream
all_tickers_stream == <<33, 116, 105, 99, 107, 101, 114, 64, 97, 114, 114>>

\* [String]::join
RECURSIVE join(_, _)
join(strings, sep) ==
    IF strings = <<>> THEN <<>>
    ELSE IF Len(strings) = 1 THEN strings[1]
    ELSE strings[1] \o sep \o join(Tail(strings), sep)

\* connect_async(&url) with its error mapped: the URL it was called with and
\* the Result, Ok when the server accepted the connection.
connect_async(url, accepted) ==
    [urls |-> <<url>>, result |-> IF accepted THEN "Ok" ELSE "WebSocket"]

\* WebSocketClient::connect_stream
connect_stream(base, stream, accepted) == connect_async(base \o stream, accepted)

\* WebSocketClient::connect_combined_stream
connect_combined_stream(base, topics, accepted) ==
    LET combined_streams == join(topics, <<47>>)
    IN  connect_async(base \o <<115, 116, 114, 101, 97, 109, 63, 115, 116, 114, 101, 97, 109, 115, 61>> \o combined_streams, accepted)

\* WebSocketClient::user_data_stream
user_data_stream(base, key, accepted) ==
    connect_async(base \o <<119, 115, 47>> \o key, accepted)

\* A connect that opens a single-topic connection to the first topic only.
connect_first_only(base, topics, accepted) ==
    IF topics = <<>>
    THEN [urls |-> <<>>, result |-> "WebSocket"]
    ELSE connect_stream(base, topics[1], accepted)

\* StreamBuilder::connect
connect(base, topics, accepted) ==
    IF topics = <<>>
    THEN [urls |-> <<>>, result |-> "WebSocket"]
    ELSE IF Len(topics) = 1
    THEN connect_stream(base, topics[1], accepted)
    ELSE connect_combined_stream(base, topics, accepted)

\* The arguments the builder's methods are called with, and the topic names
\* they make.
Symbols == {<<66, 84, 67, 85, 83, 68, 84>>, <<69, 116, 104, 85, 115, 100, 116>>}
Intervals == {<<49, 109>>}
DepthLevels == {NoLevels, SomeLevels(5)}
Topics ==
    {depth_stream(symbol, levels) : symbol \in Symbols, levels \in DepthLevels}
    \cup {trade_stream(symbol) : symbol \in Symbols}
    \cup {kline_stream(symbol, interval) : symbol \in Symbols, interval \in Intervals}
    \cup {ticker_stream(symbol) : symbol \in Symbols}
    \cup {all_tickers_stream}

\* No connecting call has been made.
NotConnected ==
    [call |-> "none", result |-> "none", stream |-> <<>>, topics |-> <<>>,
     listen_key |-> <<>>]

\* The builder has not been consumed by connect, and no connecting call of
\* the client is waiting for its Result to be taken.
Building == connected.call = "none"

\* self.streams.push(topic)
Push(topic) ==
    /\ Len(streams) < MaxStreams
    /\ streams' = Append(streams, topic)
    /\ UNCHANGED <<base_url, connections, connected>>
    /\ UNCHANGED <<httpVars, lkVars, responseVars, apiVars, parseVars, loopVars>>

\* StreamBuilder::depth
Depth ==
    /\ Building
    /\ \E symbol \in Symbols, levels \in DepthLevels : Push(depth_stream(symbol, levels))

\* StreamBuilder::trade
Trade ==
    /\ Building
    /\ \E symbol \in Symbols : Push(trade_stream(symbol))

\* StreamBuilder::kline
Kline ==
    /\ Building
    /\ \E symbol \in Symbols, interval \in Intervals :
          Push(kline_stream(symbol, interval))

\* StreamBuilder::ticker
Ticker ==
    /\ Building
    /\ \E symbol \in Symbols : Push(ticker_stream(symbol))

\* StreamBuilder::all_tickers
AllTickers ==
    /\ Building
    /\ Push(all_tickers_stream)

\* A connecting call has returned: the URLs it had connect_async called with
\* and its Result are recorded with its arguments.
Called(call, r, stream, topics, key) ==
    /\ connections' = r.urls
    /\ connected' = [call |-> call, result |-> r.result, stream |-> stream,
                     topics |-> topics, listen_key |-> key]
    /\ UNCHANGED <<base_url, streams>>
    /\ UNCHANGED <<httpVars, lkVars, responseVars, apiVars, parseVars, loopVars>>

\* StreamBuilder::connect
Connect ==
    /\ Building
    /\ \E accepted \in BOOLEAN :
          Called("connect", connect(base_url, streams, accepted), <<>>, streams, <<>>)

\* WebSocketClient::connect_stream, called with a topic name
ConnectStream ==
    /\ Building
    /\ \E stream \in Topics, accepted \in BOOLEAN :
          Called("connect_stream", connect_stream(base_url, stream, accepted),
                 stream, <<>>, <<>>)

\* WebSocketClient::connect_combined_stream, called with a list of topic names
ConnectCombinedStream ==
    /\ Building
    /\ \E accepted \in BOOLEAN :
          Called("connect_combined_stream",
                 connect_combined_stream(base_url, streams, accepted),
                 <<>>, streams, <<>>)

\* WebSocketClient::user_data_stream, called with a listen key
UserDataStreamConnect ==
    /\ Building
    /\ \E key \in ListenKeys, accepted \in BOOLEAN :
          Called("user_data_stream", user_data_stream(base_url, key, accepted),
                 <<>>, <<>>, key)

\* The connection, or the error, is dropped and a new StreamBuilder is made
\* for the same endpoint.
NewBuilder ==
    /\ connected.call # "none"
    /\ streams' = <<>>
    /\ connections' = <<>>
    /\ connected' = NotConnected
    /\ UNCHANGED <<base_url, httpVars, lkVars, responseVars, apiVars, parseVars, loopVars>>

(***************************************************************************)
(* websocket/stream.rs: handle_message                                     *)
(***************************************************************************)
\* The items ws.next() yields: Some(Ok(message)) for a Text, Ping, Pong,
\* Binary or Close message, Some(Err(e)), and None at the end of the stream.
Item(kind) == [kind |-> kind, text |-> NOT_JSON, data |-> <<>>]
TextMessage(text) == [kind |-> "Text", text |-> text, data |-> <<>>]
PingMessage(data) == [kind |-> "Ping", text |-> NOT_JSON, data |-> data]
PongMessage(data) == [kind |-> "Pong", text |-> NOT_JSON, data |-> data]

\* The texts of the Text messages of a connection: a depth event, a trade of
\* a multiplexed stream, a text that is not JSON, and an object that is no
\* message.
FrameTexts ==
    {FrameText(JsonObject(With(PayloadFields("DepthUpdate"), "e",
                               JsonString(DEPTH_UPDATE)))),
     FrameText(JsonObject([stream |-> JsonString(<<98, 116, 99, 117, 115, 100, 116, 64, 116, 114, 97, 100, 101>>),
                           data |-> JsonObject(PayloadFields("TradeStream"))])),
     NOT_JSON,
     FrameText(JsonObject(NoFields))}

\* The payloads of the Ping messages of a connection.
PingPayloads == {<<>>, <<107>>}

\* eprintln!("Error parsing message: ...") and
\* eprintln!("Error handling message: ...")
ParsingError(e) == [what |-> "Error parsing message", error |-> e]
HandlingError == [what |-> "Error handling message", error |-> WsErr("Unknown", <<>>)]

\* The loop is waiting in ws.next().
Reading == loop = "running" /\ Len(inbound) < MaxFrames

\* A Text arm whose parse error ends the loop.
TextArmStopsOnError ==
    /\ Reading
    /\ \E text \in FrameTexts, handler_ok \in BOOLEAN :
          LET r == parse_message(text)
          IN  /\ inbound' = Append(inbound, TextMessage(text))
              /\ delivered' = IF r.kind = "Ok" THEN Append(delivered, r) ELSE delivered
              /\ reported' = IF r.kind # "Ok" THEN Append(reported, ParsingError(r))
                             ELSE IF handler_ok THEN reported
                             ELSE Append(reported, HandlingError)
              /\ loop' = IF r.kind = "Ok" THEN "running" ELSE "WebSocket"
    /\ UNCHANGED outbound
    /\ UNCHANGED <<httpVars, lkVars, responseVars, apiVars, parseVars, builderVars>>

\* Ok(Message::Text(text)): the text is parsed; a message goes to the
\* handler, whose error is printed; a parse error is printed.
TextArm ==
    /\ Reading
    /\ \E text \in FrameTexts, handler_ok \in BOOLEAN :
          LET r == parse_message(text)
          IN  /\ inbound' = Append(inbound, TextMessage(text))
              /\ delivered' = IF r.kind = "Ok" THEN Append(delivered, r) ELSE delivered
              /\ reported' = IF r.kind # "Ok" THEN Append(reported, ParsingError(r))
                             ELSE IF handler_ok THEN reported
                             ELSE Append(reported, HandlingError)
    /\ UNCHANGED <<outbound, loop>>
    /\ UNCHANGED <<httpVars, lkVars, responseVars, apiVars, parseVars, builderVars>>

\* A Ping arm that answers with a Pong without payload.
PingArmEmptyPong ==
    /\ Reading
    /\ \E data \in PingPayloads, sent \in BOOLEAN :
          /\ inbound' = Append(inbound, PingMessage(data))
          /\ outbound' = IF sent THEN Append(outbound, PongMessage(<<>>)) ELSE outbound
          /\ loop' = IF sent THEN "running" ELSE "WebSocket"
    /\ UNCHANGED <<delivered, reported>>
    /\ UNCHANGED <<httpVars, lkVars, responseVars, apiVars, parseVars, builderVars>>

\* Ok(Message::Ping(data)): a Pong with the same data is sent; when the send
\* fails, '?' returns the WebSocket error.
PingArm ==
    /\ Reading
    /\ \E data \in PingPayloads, sent \in BOOLEAN :
          /\ inbound' = Append(inbound, PingMessage(data))
          /\ outbound' = IF sent THEN Append(outbound, PongMessage(data)) ELSE outbound
          /\ loop' = IF sent THEN "running" ELSE "WebSocket"
    /\ UNCHANGED <<delivered, reported>>
    /\ UNCHANGED <<httpVars, lkVars, responseVars, apiVars, parseVars, builderVars>>

\* Ok(Message::Close(_)): break, and Ok(()) after the loop.
CloseArm ==
    /\ Reading
    /\ inbound' = Append(inbound, Item("Close"))
    /\ loop' = "Ok"
    /\ UNCHANGED <<outbound, delivered, reported>>
    /\ UNCHANGED <<httpVars, lkVars, responseVars, apiVars, parseVars, builderVars>>

\* Err(e): return Err(BinanceError::WebSocket(..))
ErrArm ==
    /\ Reading
    /\ inbound' = Append(inbound, Item("Err"))
    /\ loop' = "WebSocket"
    /\ UNCHANGED <<outbound, delivered, reported>>
    /\ UNCHANGED <<httpVars, lkVars, responseVars, apiVars, parseVars, builderVars>>

\* _ => {}: a Binary or Pong message is passed over.
OtherArm ==
    /\ Reading
    /\ \E kind \in {"Binary", "Pong"} : inbound' = Append(inbound, Item(kind))
    /\ UNCHANGED <<outbound, delivered, reported, loop>>
    /\ UNCHANGED <<httpVars, lkVars, responseVars, apiVars, parseVars, builderVars>>

\* ws.next() yields None: the while-let ends, and Ok(()) after the loop.
EndOfStream ==
    /\ Reading
    /\ inbound' = Append(inbound, Item("None"))
    /\ loop' = "Ok"
    /\ UNCHANGED <<outbound, delivered, reported>>
    /\ UNCHANGED <<httpVars, lkVars, responseVars, apiVars, parseVars, builderVars>>

(***************************************************************************)
(* client/auth.rs: Signer::sign on its own                                 *)
(***************************************************************************)
\* The query string and the secret key of test_sign.
TEST_QUERY == <<115, 121, 109, 98, 111, 108, 61, 66, 84, 67, 85, 83, 68, 84, 38, 115, 105, 100, 101, 61, 66, 85, 89, 38, 116, 121, 112, 101, 61, 76, 73, 77, 73, 84, 38, 113, 117, 97, 110, 116, 105, 116, 121, 61, 49, 38, 112, 114, 105, 99, 101, 61, 53, 48, 48, 48, 48, 38, 116, 105, 109, 101, 115, 116, 97, 109, 112, 61, 49, 50, 51, 52, 53, 54, 55, 56, 57, 48>>
TEST_SECRET_KEY == <<116, 101, 115, 116, 95, 115, 101, 99, 114, 101, 116, 95, 107, 101, 121>>

\* The strings of at most n bytes over some bytes.
RECURSIVE StringsUpTo(_, _)
StringsUpTo(bytes, n) ==
    IF n = 0 THEN {<<>>}
    ELSE LET shorter == StringsUpTo(bytes, n - 1)
         IN  shorter \cup {<<b>> \o s : b \in bytes, s \in shorter}

\* query_string.as_bytes(): short strings of 'a', '=' and the two bytes of a
\* character outside ASCII, and the query of test_sign.
SignMessages == StringsUpTo({97, 61, 195, 169}, MaxMessageLen) \cup {TEST_QUERY}

\* secret_key.as_bytes(): the empty key, a short one, the key of test_sign,
\* and one that is longer than a block of Sha256.
SecretKeys == {<<>>, <<115>>, TEST_SECRET_KEY, TEST_QUERY}

NotSigned == [secret_key |-> <<>>, query_string |-> <<>>]

\* Signer::sign as it returns: Err(Authentication) when the key is refused,
\* else Ok(hex::encode(signature)).
SignResult(sg, query_string) ==
    IF new_from_slice(sg.secret_key) # "Ok"
    THEN [kind |-> "Authentication", value |-> <<>>]
    ELSE [kind |-> "Ok", value |-> sign(sg, query_string)]

\* signer.sign(query_string), called up to two times on the same arguments.
Sign ==
    /\ Len(sign_result) < 2
    /\ sign_result' =
          Append(sign_result,
                 SignResult([some |-> TRUE, api_key |-> <<>>,
                             secret_key |-> sign_args.secret_key],
                            sign_args.query_string))
    /\ UNCHANGED sign_args
    /\ UNCHANGED <<httpVars, lkVars, responseVars, wsVars, tradeVars>>

(***************************************************************************)
(* types/common.rs and api/advanced_trading.rs                             *)
(***************************************************************************)
\* impl fmt::Display for OrderSide, OrderType, TimeInForce, PositionSide
OrderSideToString(side) ==
    CASE side = "Buy" -> <<66, 85, 89>>
      [] side = "Sell" -> <<83, 69, 76, 76>>

OrderTypeToString(order_type) ==
    CASE order_type = "Limit" -> <<76, 73, 77, 73, 84>>
      [] order_type = "Market" -> <<77, 65, 82, 75, 69, 84>>
      [] order_type = "Stop" -> <<83, 84, 79, 80>>
      [] order_type = "StopMarket" -> <<83, 84, 79, 80, 95, 77, 65, 82, 75, 69, 84>>
      [] order_type = "TakeProfit" -> <<84, 65, 75, 69, 95, 80, 82, 79, 70, 73, 84>>
      [] order_type = "TakeProfitMarket" -> <<84, 65, 75, 69, 95, 80, 82, 79, 70, 73, 84, 95, 77, 65, 82, 75, 69, 84>>
      [] order_type = "TrailingStopMarket" -> <<84, 82, 65, 73, 76, 73, 78, 71, 95, 83, 84, 79, 80, 95, 77, 65, 82, 75, 69, 84>>

TimeInForceToString(tif) ==
    CASE tif = "Gtc" -> <<71, 84, 67>>
      [] tif = "Ioc" -> <<73, 79, 67>>
      [] tif = "Fok" -> <<70, 79, 75>>
      [] tif = "Gtx" -> <<71, 84, 88>>

PositionSideToString(ps) ==
    CASE ps = "Both" -> <<66, 79, 84, 72>>
      [] ps = "Long" -> <<76, 79, 78, 71>>
      [] ps = "Short" -> <<83, 72, 79, 82, 84>>

\* The keys of an order's parameters.
SYMBOL == <<115, 121, 109, 98, 111, 108>>
SIDE == <<115, 105, 100, 101>>
QUANTITY == <<113, 117, 97, 110, 116, 105, 116, 121>>
PRICE == <<112, 114, 105, 99, 101>>
STOP_PRICE == <<115, 116, 111, 112, 80, 114, 105, 99, 101>>
TIME_IN_FORCE == <<116, 105, 109, 101, 73, 110, 70, 111, 114, 99, 101>>
POSITION_SIDE == <<112, 111, 115, 105, 116, 105, 111, 110, 83, 105, 100, 101>>

\* Option<&str> and Option<PositionSide>
NoStr == [some |-> FALSE, value |-> <<>>]
SomeStr(s) == [some |-> TRUE, value |-> s]
NoPositionSide == [some |-> FALSE, value |-> "Both"]
SomePositionSide(ps) == [some |-> TRUE, value |-> ps]

\* if let Some(v) = option { params.insert(key, v) }
InsertIfSome(m, key, option) ==
    IF option.some THEN MapInsert(m, key, option.value) ELSE m

InsertPositionSide(m, position_side) ==
    IF position_side.some
    THEN MapInsert(m, POSITION_SIDE, PositionSideToString(position_side.value))
    ELSE m

\* The five inserts that the order builders have in common.
BaseParams(symbol, side, order_type, quantity) ==
    MapInsert(MapInsert(MapInsert(MapInsert(MapInsert(EmptyMap,
        SYMBOL, symbol),
        SIDE, OrderSideToString(side)),
        TYPE, OrderTypeToString(order_type)),
        QUANTITY, quantity),
        TIME_IN_FORCE, TimeInForceToString("Gtc"))

\* A request as the exchange receives it, and what a call has sent so far.
Sent(method, endpoint, params, result) ==
    [method |-> method, endpoint |-> endpoint, params |-> params, result |-> result]

\* client.post_signed("/fapi/v1/order", Some(params)) against the exchange's
\* book of open orders: without a signer nothing is sent; a request that the
\* exchange accepts adds the order to the book.
post_order(book, params, outcome) ==
    IF ~SignerAvailable(signer)
    THEN [result |-> "Authentication", book |-> book, sent |-> <<>>]
    ELSE [result |-> outcome,
          book |-> IF outcome = "Ok" THEN Append(book, params) ELSE book,
          sent |-> <<Sent("POST", "/fapi/v1/order", params, outcome)>>]

\* The orders of a book that are not for a symbol.
RECURSIVE OrdersNotFor(_, _)
OrdersNotFor(book, symbol) ==
    IF book = <<>> THEN <<>>
    ELSE (IF Head(book)[SYMBOL] = symbol THEN <<>> ELSE <<Head(book)>>)
             \o OrdersNotFor(Tail(book), symbol)

\* client.delete_signed("/fapi/v1/allOpenOrders", {symbol}): a request that
\* the exchange accepts cancels the open orders for the symbol.
delete_all_open_orders(book, symbol, outcome) ==
    IF ~SignerAvailable(signer)
    THEN [result |-> "Authentication", book |-> book, sent |-> <<>>]
    ELSE [result |-> outcome,
          book |-> IF outcome = "Ok" THEN OrdersNotFor(book, symbol) ELSE book,
          sent |-> <<Sent("DELETE", "/fapi/v1/allOpenOrders",
                          MapInsert(EmptyMap, SYMBOL, symbol), outcome)>>]

\* let order_type = if price.is_some() { .. } else { .. } in stop_loss_order
stop_loss_order_type(price) ==
    IF price.some THEN "StopMarket" ELSE "StopMarket"

\* AdvancedTradingApi::stop_loss_order
stop_loss_order(book, symbol, side, quantity, stop_price, price, position_side, outcome) ==
    LET params ==
            InsertPositionSide(
                InsertIfSome(
                    MapInsert(BaseParams(symbol, side, stop_loss_order_type(price), quantity),
                              STOP_PRICE, stop_price),
                    PRICE, price),
                position_side)
    IN  post_order(book, params, outcome)

\* let stop_order_type = if stop_limit_price.is_some() { .. } in oco_order
stop_order_type(stop_limit_price) ==
    IF stop_limit_price.some THEN "Stop" ELSE "StopMarket"

\* AdvancedTradingApi::oco_order
oco_order(book, symbol, side, quantity, price, stop_price, stop_limit_price, position_side, outcome1, outcome2) ==
    LET limit_params ==
            InsertPositionSide(
                MapInsert(BaseParams(symbol, side, "Limit", quantity), PRICE, price),
                position_side)
        limit_order == post_order(book, limit_params, outcome1)
        stop_params ==
            InsertPositionSide(
                InsertIfSome(
                    MapInsert(BaseParams(symbol, side, stop_order_type(stop_limit_price),
                                         quantity),
                              STOP_PRICE, stop_price),
                    PRICE, stop_limit_price),
                position_side)
        stop_order == post_order(limit_order.book, stop_params, outcome2)
    IN  IF limit_order.result # "Ok" THEN limit_order
        ELSE [stop_order EXCEPT !.sent = limit_order.sent \o stop_order.sent]

\* OrderRequest
OrderRequest(symbol, side, order_type, quantity, price, stop_price, position_side) ==
    [symbol |-> symbol, side |-> side, order_type |-> order_type,
     quantity |-> quantity, price |-> price, stop_price |-> stop_price,
     position_side |-> position_side]

\* The parameters place_order_from_request builds from a request.
OrderParams(req) ==
    InsertPositionSide(
        InsertIfSome(
            InsertIfSome(BaseParams(req.symbol, req.side, req.order_type, req.quantity),
                         PRICE, req.price),
            STOP_PRICE, req.stop_price),
        req.position_side)

\* AdvancedTradingApi::place_order_from_request
place_order_from_request(book, req, outcome) ==
    post_order(book, OrderParams(req), outcome)

\* for order_req in orders { place_order_from_request(order_req).await? }
RECURSIVE place_orders(_, _, _)
place_orders(book, reqs, outcomes) ==
    IF reqs = <<>> THEN [result |-> "Ok", book |-> book, sent |-> <<>>]
    ELSE LET order == place_order_from_request(book, Head(reqs), Head(outcomes))
         IN  IF order.result # "Ok" THEN order
             ELSE LET rest == place_orders(order.book, Tail(reqs), Tail(outcomes))
                  IN  [rest EXCEPT !.sent = order.sent \o rest.sent]

\* AdvancedTradingApi::replace_all_orders
replace_all_orders(book, symbol, reqs, outcomes) ==
    LET cancelled == delete_all_open_orders(book, symbol, Head(outcomes))
    IN  IF cancelled.result # "Ok" THEN cancelled
        ELSE LET placed == place_orders(cancelled.book, reqs, Tail(outcomes))
             IN  [placed EXCEPT !.sent = cancelled.sent \o placed.sent]

\* What the exchange and the network do with one request: it is accepted, it
\* is rejected with an error body, or it does not reach the exchange.
TradeOutcomes == {"Ok", "Api", "Http"}

BTCUSDT == <<66, 84, 67, 85, 83, 68, 84>>
ETHUSDT == <<69, 84, 72, 85, 83, 68, 84>>
QTY == <<48, 46, 48, 48, 49>>
STOP_AT == <<52, 53, 48, 48, 48, 46, 48>>
LIMIT_AT == <<52, 52, 57, 48, 48, 46, 48>>

OrderSides == {"Buy", "Sell"}
LimitPrices == {NoStr, SomeStr(LIMIT_AT)}
PositionSides == {NoPositionSide, SomePositionSide("Long")}

\* The sequences of at most n elements of a set.
RECURSIVE SeqsUpTo(_, _)
SeqsUpTo(S, n) ==
    IF n = 0 THEN {<<>>}
    ELSE LET shorter == SeqsUpTo(S, n - 1)
         IN  shorter \cup {<<x>> \o s : x \in S, s \in shorter}

\* The requests a caller hands to replace_all_orders.
OrderRequests ==
    {OrderRequest(BTCUSDT, "Buy", "Limit", QTY, SomeStr(LIMIT_AT), NoStr, NoPositionSide),
     OrderRequest(BTCUSDT, "Sell", "StopMarket", QTY, NoStr, SomeStr(STOP_AT),
                  SomePositionSide("Long"))}

\* The orders that are open on the exchange before a call.
OpenBefore ==
    {OrderParams(OrderRequest(BTCUSDT, "Sell", "Limit", QTY, SomeStr(STOP_AT), NoStr,
                              NoPositionSide)),
     OrderParams(OrderRequest(ETHUSDT, "Buy", "Market", QTY, NoStr, NoStr,
                              NoPositionSide))}

NoApiCall ==
    [name |-> "none", result |-> "none", sent |-> <<>>, book_before |-> <<>>,
     symbol |-> <<>>, price |-> NoStr, reqs |-> <<>>]

\* A call of the AdvancedTradingApi has run to its end.
Answered(name, r, symbol, price, reqs) ==
    /\ open_orders' = r.book
    /\ api_call' = [name |-> name, result |-> r.result, sent |-> r.sent,
                    book_before |-> open_orders, symbol |-> symbol,
                    price |-> price, reqs |-> reqs]
    /\ UNCHANGED <<httpVars, lkVars, responseVars, wsVars, signVars>>

StopLossOrder ==
    /\ api_call.name = "none"
    /\ \E side \in OrderSides, price \in LimitPrices, position_side \in PositionSides,
          outcome \in TradeOutcomes :
          Answered("stop_loss_order",
                   stop_loss_order(open_orders, BTCUSDT, side, QTY, STOP_AT, price,
                                   position_side, outcome),
                   BTCUSDT, price, <<>>)

OcoOrder ==
    /\ api_call.name = "none"
    /\ \E side \in OrderSides, stop_limit_price \in LimitPrices,
          position_side \in PositionSides, outcome1, outcome2 \in TradeOutcomes :
          Answered("oco_order",
                   oco_order(open_orders, BTCUSDT, side, QTY, LIMIT_AT, STOP_AT,
                             stop_limit_price, position_side, outcome1, outcome2),
                   BTCUSDT, stop_limit_price, <<>>)

ReplaceAllOrders ==
    /\ api_call.name = "none"
    /\ \E reqs \in SeqsUpTo(OrderRequests, MaxOrders) :
          \E outcomes \in [1..(Len(reqs) + 1) -> TradeOutcomes] :
              Answered("replace_all_orders",
                       replace_all_orders(open_orders, BTCUSDT, reqs, outcomes),
                       BTCUSDT, NoStr, reqs)

(***************************************************************************)
(* The parts of the program that a specification leaves out of play        *)
(***************************************************************************)
\* An HttpClient on which no signed call is under way.
HttpIdle == now = ClockStart /\ last = NoCall

\* No response is being handled.
ResponseIdle == reply = SendFailure /\ handled = ResultOf("none")

\* parse_message is not called.
ParseIdle == frame_text = NOT_JSON /\ parsed = NotParsed

\* A WebSocketClient::new() that is not asked to connect.
BuilderIdle ==
    /\ base_url = WS_BASE_URL
    /\ streams = <<>>
    /\ connections = <<>>
    /\ connected = NotConnected

\* handle_message is not running.
LoopIdle ==
    /\ inbound = <<>>
    /\ outbound = <<>>
    /\ delivered = <<>>
    /\ reported = <<>>
    /\ loop = "none"

\* Nothing of websocket/stream.rs is in use.
StreamIdle == ParseIdle /\ BuilderIdle /\ LoopIdle

SignIdle == sign_args = NotSigned /\ sign_result = <<>>

TradeIdle == open_orders = <<>> /\ api_call = NoApiCall

ApiIdle == SignIdle /\ TradeIdle

(***************************************************************************)
(* Signed calls on an HttpClient built by HttpClient::new (no signer) or   *)
(* HttpClient::new_with_credentials.                                       *)
(***************************************************************************)
Init ==
    /\ signer \in {NoSigner, TestSigner}
    /\ HttpIdle
    /\ NewManager
    /\ ApiIdle
    /\ ResponseIdle
    /\ StreamIdle

Next == get_signed \/ post_signed \/ put_signed \/ delete_signed \/ Return \/ Tick

Spec == Init /\ [][Next]_vars

(***************************************************************************)
(* The operations of a UserDataStreamManager, and of the UserDataStream    *)
(* that wraps it, driven by a single owner.                                *)
(***************************************************************************)
NextManager ==
    \/ CreateListenKey \/ KeepaliveListenKey \/ CloseListenKey \/ GetListenKey
    \/ Maintain \/ SetKeepaliveInterval \/ StartKeepaliveTask \/ KeepaliveTaskTurn
    \/ TakeResult \/ Elapse

SpecManager == Init /\ [][NextManager]_vars

(***************************************************************************)
(* A UserDataStream built by UserDataStream::new from a configuration,     *)
(* started, and maintained on a fixed cadence while every request succeeds.*)
(***************************************************************************)
InitCadence ==
    /\ signer = TestSigner
    /\ HttpIdle
    /\ listen_key = NoKey
    /\ last_keepalive = NoInstant
    /\ keepalive_interval \in 0..MaxInterval
    /\ clock = 0
    /\ task = "idle"
    /\ op = NoOp
    /\ session \in {[NoSession EXCEPT !.cadence = c] : c \in 0..MaxInterval}
    /\ ApiIdle
    /\ ResponseIdle
    /\ StreamIdle

NextCadence == Start \/ WaitForCadence \/ MaintainOnCadence

SpecCadence == InitCadence /\ [][NextCadence]_vars

(***************************************************************************)
(* handle_response on one response, of every kind.                         *)
(***************************************************************************)
InitResponse ==
    /\ signer = TestSigner
    /\ HttpIdle
    /\ NewManager
    /\ ApiIdle
    /\ reply \in Responses
    /\ handled = ResultOf("none")
    /\ StreamIdle

NextResponse == HandleResponse

SpecResponse == InitResponse /\ [][NextResponse]_vars

(***************************************************************************)
(* parse_message on one text, of every shape.                              *)
(***************************************************************************)
InitParse ==
    /\ signer = TestSigner
    /\ HttpIdle
    /\ NewManager
    /\ ApiIdle
    /\ ResponseIdle
    /\ frame_text \in Messages
    /\ parsed = NotParsed
    /\ BuilderIdle
    /\ LoopIdle

NextParse == ParseMessage

SpecParse == InitParse /\ [][NextParse]_vars

(***************************************************************************)
(* A StreamBuilder and the connecting calls of its WebSocketClient, made   *)
(* by WebSocketClient::new or WebSocketClient::testnet.                    *)
(***************************************************************************)
InitBuilder ==
    /\ signer = TestSigner
    /\ HttpIdle
    /\ NewManager
    /\ ApiIdle
    /\ ResponseIdle
    /\ ParseIdle
    /\ base_url \in {WS_BASE_URL, WS_TESTNET_URL}
    /\ streams = <<>>
    /\ connections = <<>>
    /\ connected = NotConnected
    /\ LoopIdle

NextBuilder ==
    \/ Depth \/ Trade \/ Kline \/ Ticker \/ AllTickers \/ Connect
    \/ ConnectStream \/ ConnectCombinedStream \/ UserDataStreamConnect \/ NewBuilder

SpecBuilder == InitBuilder /\ [][NextBuilder]_vars

(***************************************************************************)
(* handle_message running on a connection, from its call to its return.    *)
(***************************************************************************)
InitConsumer ==
    /\ signer = TestSigner
    /\ HttpIdle
    /\ NewManager
    /\ ApiIdle
    /\ ResponseIdle
    /\ ParseIdle
    /\ BuilderIdle
    /\ inbound = <<>>
    /\ outbound = <<>>
    /\ delivered = <<>>
    /\ reported = <<>>
    /\ loop = "running"

NextConsumer == TextArm \/ PingArm \/ CloseArm \/ ErrArm \/ OtherArm \/ EndOfStream

SpecConsumer == InitConsumer /\ [][NextConsumer]_vars

(***************************************************************************)
(* Signer::sign on one secret key and one query string.                    *)
(***************************************************************************)
InitSign ==
    /\ signer = TestSigner
    /\ HttpIdle
    /\ NewManager
    /\ TradeIdle
    /\ ResponseIdle
    /\ StreamIdle
    /\ sign_args \in [secret_key : SecretKeys, query_string : SignMessages]
    /\ sign_result = <<>>

NextSign == Sign

SpecSign == InitSign /\ [][NextSign]_vars

(***************************************************************************)
(* One call of the AdvancedTradingApi against an exchange that has some    *)
(* orders open.                                                            *)
(***************************************************************************)
InitTrading ==
    /\ signer \in {NoSigner, TestSigner}
    /\ HttpIdle
    /\ NewManager
    /\ SignIdle
    /\ ResponseIdle
    /\ StreamIdle
    /\ open_orders \in SeqsUpTo(OpenBefore, MaxOrders)
    /\ api_call = NoApiCall

NextTrading == StopLossOrder \/ OcoOrder \/ ReplaceAllOrders

SpecTrading == InitTrading /\ [][NextTrading]_vars

(***************************************************************************)
(* Properties of the signing path                                          *)
(***************************************************************************)
\* The keys of a map in ascending lexicographic order.
AscendingKeys(m) ==
    CHOOSE s \in Perms(DOMAIN m) : \A i, j \in 1..Len(s) : i < j => StrLess(s[i], s[j])

\* The canonical query string of a parameter set: key=value pairs joined by
\* '&', keys ascending.
CanonicalQueryString(m) == JoinPairs(MapIter(m, AscendingKeys(m)))

MapRemove(m, k) == [x \in (DOMAIN m) \ {k} |-> m[x]]

\* The parameters of the last call together with the timestamp injected in it.
SignedFields == MapInsert(UnwrapOrDefault(last.params), TIMESTAMP, U64ToString(last.timestamp))

\* The last call went through Signer::sign_request (get_signed, post_signed).
ViaSigner == last.signer_called /\ last.method \in {"GET", "POST"}

\* C1: in every signed call shape the string that is signed is the canonical
\* query string of the parameters with the timestamp (keys ascending), which
\* is also the string sign_request signs for those parameters and timestamp.
C1_SignedStringIsCanonical ==
    last.signer_called =>
        /\ last.query_string = CanonicalQueryString(SignedFields)
        /\ \A iter \in IterOrders(SignedFields) :
              last.query_string =
                JoinPairs(SortedQueryParams(UnwrapOrDefault(last.params), last.timestamp, iter))

\* C2: a signed call on a client without credentials returns Authentication,
\* with the signer never invoked and no request sent.
C2_NoCredentialsFailsFirst ==
    (last.method # "none" /\ ~signer.some) =>
        /\ last.result = "Authentication"
        /\ ~last.signer_called
        /\ ~last.request_sent

C2_Witness ==
    /\ ~signer.some
    /\ last.method = "DELETE"
    /\ last.params.some
    /\ last.result = "Authentication"

\* C3: signing the canonical string of the output's fields other than
\* 'signature' with the same secret gives the output's 'signature' again.
C3_RoundTrip ==
    ViaSigner =>
        sign(signer, CanonicalQueryString(MapRemove(last.sent_params, SIGNATURE)))
            = last.sent_params[SIGNATURE]

\* C4: the string sign_request signs has its keys in strictly ascending
\* order and is the same under every iteration order of the parameters.
C4_CanonicalOrderIndependent ==
    ViaSigner =>
        /\ \A i, j \in 1..Len(last.query_params) :
              i < j => StrLess(last.query_params[i][1], last.query_params[j][1])
        /\ \A iter \in IterOrders(SignedFields) :
              JoinPairs(SortedQueryParams(UnwrapOrDefault(last.params), last.timestamp, iter))
                = last.query_string

\* sign_request met three parameters in descending order of their keys.
C4_Witness ==
    /\ ViaSigner
    /\ Len(last.iter_order) = 3
    /\ StrLess(last.iter_order[3], last.iter_order[2])
    /\ StrLess(last.iter_order[2], last.iter_order[1])

\* C5: the output of sign_request has the keys of the input plus 'timestamp'
\* and 'signature', each once, and every other input value unchanged.
C5_OutputFields ==
    ViaSigner =>
        LET input == UnwrapOrDefault(last.params)
        IN  /\ DOMAIN last.sent_params = (DOMAIN input) \cup {TIMESTAMP, SIGNATURE}
            /\ \A k \in (DOMAIN input) \ {TIMESTAMP, SIGNATURE} : last.sent_params[k] = input[k]

\* sign_request was given the empty parameter set.
C5_Witness ==
    /\ ViaSigner
    /\ DOMAIN UnwrapOrDefault(last.params) = {}
    /\ DOMAIN last.sent_params = {TIMESTAMP, SIGNATURE}

\* C6: the 'timestamp' of every signed request is the clock reading of the
\* moment of that call, whatever the caller supplied and whatever an earlier
\* request carried.
C6_TimestampIsCurrentReading ==
    [][(last.method = "none" /\ last'.signer_called) =>
          /\ last'.timestamp = now
          /\ last'.sent_params[TIMESTAMP] = U64ToString(now)]_vars

\* A signed request given its own 'timestamp' value, made after an earlier
\* signed request and after the clock has moved on.
C6_Witness ==
    /\ last.signer_called
    /\ TIMESTAMP \in DOMAIN UnwrapOrDefault(last.params)
    /\ last.earlier_timestamp # 0
    /\ last.earlier_timestamp # last.timestamp
    /\ last.sent_params[TIMESTAMP] = U64ToString(now)

(***************************************************************************)
(* Properties of the listen-key manager                                    *)
(***************************************************************************)
\* The manager as it was when the recorded operation started.
BeforeOp ==
    [listen_key |-> op.key_before, last_keepalive |-> op.anchor_before, clock |-> op.started]

\* The recorded operation left the stored key and the anchor as they were.
KeyAndAnchorKept == listen_key = op.key_before /\ last_keepalive = op.anchor_before

\* A key existed and at least the refresh interval had passed since the anchor.
KeepaliveWasDue ==
    /\ op.key_before.some
    /\ op.anchor_before.some
    /\ op.started - op.anchor_before.at >= keepalive_interval

\* C7: get_listen_key sends a keepalive first when a key exists and the
\* refresh interval has elapsed, and returns nothing but its error when that
\* fails; it then returns the existing key unchanged, or creates one when
\* there is none; with a key and no keepalive due it issues no request.
C7_GetListenKey ==
    op.name = "get_listen_key" =>
        /\ KeepaliveWasDue =>
              /\ Len(op.requests) = 1
              /\ op.requests[1].kind = "keepalive"
              /\ op.requests[1].listenKey = op.key_before
              /\ op.result = op.requests[1].result
        /\ (op.key_before.some /\ ~KeepaliveWasDue) =>
              /\ op.requests = <<>>
              /\ op.result = "Ok"
              /\ KeyAndAnchorKept
        /\ (op.key_before.some /\ op.result = "Ok") =>
              /\ op.value = op.key_before
              /\ listen_key = op.key_before
        /\ ~op.key_before.some =>
              /\ Len(op.requests) = 1
              /\ op.requests[1].kind = "create"
              /\ op.result = op.requests[1].result
              /\ op.result = "Ok" => (listen_key.some /\ op.value = listen_key)

\* get_listen_key, called exactly one refresh interval after the anchor, sent
\* a keepalive that succeeded and returned the key it had.
C7_Witness ==
    /\ op.name = "get_listen_key"
    /\ op.key_before.some
    /\ keepalive_interval > 0
    /\ op.started - op.anchor_before.at = keepalive_interval
    /\ Len(op.requests) = 1
    /\ op.requests[1].kind = "keepalive"
    /\ op.result = "Ok"
    /\ op.value = op.key_before

\* What maintain() does: a creation when expired, else a keepalive when one
\* is due, else nothing.
MaintainSteps ==
    op.name = "maintain" =>
        /\ is_expired(BeforeOp) =>
              Len(op.requests) = 1 /\ op.requests[1].kind = "create"
        /\ (~is_expired(BeforeOp) /\ needs_keepalive(BeforeOp)) =>
              Len(op.requests) = 1 /\ op.requests[1].kind = "keepalive"
        /\ (~is_expired(BeforeOp) /\ ~needs_keepalive(BeforeOp)) =>
              op.requests = <<>> /\ op.result = "Ok" /\ KeyAndAnchorKept
        /\ op.result = "Ok" <=> \A i \in 1..Len(op.requests) : op.requests[i].result = "Ok"

\* C8 as stated: maintain() recreates when expired, else keeps alive when due,
\* else does nothing, and a maintain() directly after a successful maintain()
\* with no time elapsed issues no request and changes nothing, for every
\* refresh interval.
C8_MaintainIdempotentAnyInterval ==
    /\ MaintainSteps
    /\ (op.name = "maintain" /\ op.follows_maintain) =>
          op.requests = <<>> /\ KeyAndAnchorKept

\* C8 amended: the same, for every refresh interval greater than zero.
C8_MaintainIdempotent ==
    /\ MaintainSteps
    /\ (op.name = "maintain" /\ op.follows_maintain /\ keepalive_interval > 0) =>
          op.requests = <<>> /\ KeyAndAnchorKept

\* A maintain() directly after a successful maintain(), with a key stored
\* whose anchor is the present Instant.
C8_Witness ==
    /\ op.name = "maintain"
    /\ op.follows_maintain
    /\ keepalive_interval > 0
    /\ listen_key.some
    /\ last_keepalive = SomeInstant(clock)
    /\ op.requests = <<>>

\* C9: in every manager operation that issues a keepalive, a keepalive that
\* fails leaves the stored key and the anchor as they were, is followed by no
\* further request, and its error is what the operation returns.
C9_FailedKeepaliveLeavesState ==
    \A i \in 1..Len(op.requests) :
        (/\ op.name \in {"keepalive_listen_key", "get_listen_key", "maintain",
                         "start_keepalive_task"}
         /\ op.requests[i].kind = "keepalive"
         /\ op.requests[i].result # "Ok") =>
            /\ KeyAndAnchorKept
            /\ Len(op.requests) = i
            /\ op.result = op.requests[i].result

\* The anchor is absent exactly when no key is stored, and is_expired() is
\* false right after a creation or a keepalive that succeeded.
AnchorAndFreshness ==
    /\ last_keepalive.some <=> listen_key.some
    /\ (op.name \in {"create_listen_key", "keepalive_listen_key"} /\ op.result = "Ok") =>
          ~is_expired(Manager)

\* C10 as stated: is_expired() is true exactly when there is no anchor or the
\* time since the anchor exceeds the 60-minute window.
C10_ExpiredWhenWindowExceeded ==
    /\ is_expired(Manager) <=>
          (~last_keepalive.some \/ clock - last_keepalive.at > ExpiryWindow)
    /\ AnchorAndFreshness

\* C10 amended: is_expired() is true exactly when there is no anchor or the
\* time since the anchor is at least the 60-minute window.
C10_ExpiredWhenWindowReached ==
    /\ is_expired(Manager) <=>
          (~last_keepalive.some \/ clock - last_keepalive.at >= ExpiryWindow)
    /\ AnchorAndFreshness

\* A key that nothing was done to since its anchor, exactly 60 minutes ago,
\* is expired.
C10_Witness ==
    /\ op.name = "none"
    /\ listen_key.some
    /\ last_keepalive.some
    /\ clock - last_keepalive.at = ExpiryWindow
    /\ is_expired(Manager)

\* needs_keepalive() is false while no key is stored, true only when the
\* anchor is at least one refresh interval old, and the anchor is the Instant
\* at which the last creation or keepalive succeeded.
NeedsKeepaliveOnlyWhenDue ==
    /\ ~listen_key.some => ~needs_keepalive(Manager)
    /\ needs_keepalive(Manager) =>
          (last_keepalive.some /\ clock - last_keepalive.at >= keepalive_interval)
    /\ (op.name \in {"create_listen_key", "keepalive_listen_key"} /\ op.result = "Ok") =>
          last_keepalive = SomeInstant(clock)

\* C11 as stated: right after a create_listen_key() that succeeded
\* needs_keepalive() is false, it is true only once the refresh interval has
\* passed since the last creation or keepalive that succeeded, and it is
\* false without a key, for every refresh interval that can be configured.
C11_NoKeepaliveRightAfterCreateAnyInterval ==
    /\ (op.name = "create_listen_key" /\ op.result = "Ok") => ~needs_keepalive(Manager)
    /\ NeedsKeepaliveOnlyWhenDue

\* C11 amended: the same, for every refresh interval greater than zero.
C11_NoKeepaliveRightAfterCreate ==
    /\ (op.name = "create_listen_key" /\ op.result = "Ok" /\ keepalive_interval > 0) =>
          ~needs_keepalive(Manager)
    /\ NeedsKeepaliveOnlyWhenDue

\* A create_listen_key() that succeeded on a manager whose keepalive was due:
\* it no longer is.
C11_Witness ==
    /\ op.name = "create_listen_key"
    /\ op.result = "Ok"
    /\ keepalive_interval > 0
    /\ op.key_before.some
    /\ needs_keepalive(BeforeOp)
    /\ ~needs_keepalive(Manager)

\* C12: close_listen_key() on a manager that holds a key, Active or Expired,
\* issues one signed DELETE carrying that key; when it succeeds the key and
\* the anchor are cleared, so current_listen_key() is None, is_expired() is
\* true and needs_keepalive() is false.
C12_CloseClearsKeyAndAnchor ==
    (op.name = "close_listen_key" /\ op.key_before.some) =>
        /\ Len(op.requests) = 1
        /\ op.requests[1].method = "DELETE"
        /\ op.requests[1].listenKey = op.key_before
        /\ op.result = op.requests[1].result
        /\ op.result = "Ok" =>
              /\ SignerAvailable(signer)
              /\ listen_key = NoKey
              /\ last_keepalive = NoInstant
              /\ current_listen_key(Manager) = NoKey
              /\ is_expired(Manager)
              /\ ~needs_keepalive(Manager)

\* A close_listen_key() that succeeded on a manager whose key was Expired.
C12_Witness ==
    /\ op.name = "close_listen_key"
    /\ op.key_before.some
    /\ is_expired(BeforeOp)
    /\ op.result = "Ok"
    /\ op.requests[1].listenKey = op.key_before
    /\ current_listen_key(Manager) = NoKey

\* The recorded operation is one that has to create a key: create_listen_key,
\* get_listen_key without a key, maintain when expired.
HasToCreate ==
    \/ op.name = "create_listen_key"
    \/ op.name = "get_listen_key" /\ ~op.key_before.some
    \/ op.name = "maintain" /\ is_expired(BeforeOp)

\* C13: each of these operations issues a creation, and a creation that
\* fails leaves the stored key and the anchor as they were before the call,
\* and its error is what the operation returns.
C13_FailedCreationLeavesState ==
    HasToCreate =>
        /\ Len(op.requests) = 1
        /\ op.requests[1].kind = "create"
        /\ op.requests[1].result # "Ok" =>
              /\ op.result = op.requests[1].result
              /\ KeyAndAnchorKept

\* maintain() on an Expired key, the creation failing in the transport: the
\* old key and its anchor are still stored.
C13_Witness ==
    /\ op.name = "maintain"
    /\ op.key_before.some
    /\ is_expired(BeforeOp)
    /\ op.requests[1].kind = "create"
    /\ op.result = "Http"
    /\ listen_key = op.key_before
    /\ last_keepalive = op.anchor_before

\* C14: in every reachable state the refresh interval is strictly shorter
\* than the 60-minute window of is_expired(), so a key whose keepalive is not
\* yet due is never Expired.
C14_IntervalShorterThanWindow ==
    /\ keepalive_interval < ExpiryWindow
    /\ (last_keepalive.some /\ is_expired(Manager)) => needs_keepalive(Manager)

(***************************************************************************)
(* Properties of handle_response                                           *)
(***************************************************************************)
\* C20: a response whose body was read has exactly one outcome.  With a
\* status from 200 to 299 it is Ok with the body deserialized into the
\* caller's type, or Json when that fails; with any other status it is Api
\* with the code and msg of a body that parses as {code, msg}, or Unknown
\* with "HTTP <status> - <body>".  No other status ever gives Ok.
C20_ResponseClassified ==
    /\ (handled.kind # "none" /\ reply.text_ok) =>
          LET body == reply.text
              success == reply.status \in 200..299
              as_T == body.json /\ from_value(reply.T, body.value)
              as_error == /\ body.json
                          /\ body.value.t = "object"
                          /\ {"code", "msg"} \subseteq DOMAIN body.value.o
                          /\ body.value.o.code.t = "number"
                          /\ body.value.o.msg.t = "string"
          IN  /\ (success /\ as_T) =>
                    handled = [ResultOf("Ok") EXCEPT !.value = body.value]
              /\ (success /\ ~as_T) => handled = ResultOf("Json")
              /\ (~success /\ as_error) =>
                    handled = [ResultOf("Api") EXCEPT !.code = body.value.o.code.n,
                                                      !.msg = body.value.o.msg.s]
              /\ (~success /\ ~as_error) =>
                    handled = [ResultOf("Unknown") EXCEPT !.message =
                                  <<72, 84, 84, 80, 32>> \o U64ToString(reply.status)
                                      \o <<32, 45, 32>> \o body.raw]
    /\ (handled.kind # "none" /\ reply.status \notin 200..299) => handled.kind # "Ok"

\* A reply with status 400 whose body is both a {code, msg} object and a
\* value of the caller's type: it is returned as Api with that code.
C20_Witness ==
    /\ reply.text_ok
    /\ reply.status = 400
    /\ reply.T = "ListenKeyResponse"
    /\ reply.text = KEY_WITH_CODE
    /\ handled.kind = "Api"
    /\ handled.code = 7

(***************************************************************************)
(* Properties of websocket/stream.rs                                       *)
(***************************************************************************)
\* The variant of the first of '@depth', '@trade', '@kline', '@ticker' that
\* occurs in a stream name, "none" when none does.
FirstMatch(name) ==
    LET order == << <<AT_DEPTH, "DepthUpdate">>, <<AT_TRADE, "Trade">>,
                    <<AT_KLINE, "Kline">>, <<AT_TICKER, "Ticker">> >>
        hits == {i \in DOMAIN order : contains(name, order[i][1])}
    IN  IF hits = {} THEN "none"
        ELSE order[CHOOSE i \in hits : \A j \in hits : i <= j][2]

\* The variant an event type names, "none" when it names none.
EventVariant(e) ==
    CASE e = DEPTH_UPDATE -> "DepthUpdate"
      [] e = TRADE -> "Trade"
      [] e = KLINE -> "Kline"
      [] e = TICKER_24HR -> "Ticker"
      [] e = ACCOUNT_UPDATE -> "AccountUpdate"
      [] e = ORDER_TRADE_UPDATE -> "OrderUpdate"
      [] OTHER -> "none"

\* parse_message returned the payload decoded as the variant, or the Json
\* error of a payload that is not of the variant's shape.
DecodedAs(variant, payload) ==
    IF from_value(StructOf(variant), payload)
    THEN parsed.kind = "Ok" /\ parsed.variant = variant /\ parsed.value = payload
    ELSE parsed.kind = "Json"

\* C17: the rules of parse_message in their order.  (1) With a 'stream' field
\* the 'data' payload (the message itself when there is no 'data') is decoded
\* as the variant of the first substring found in the stream name, whatever
\* 'e' says, and a name with none of the substrings is an error; (2) else a
\* string 'e' selects the variant by its literal value, and an unknown value
\* is an error; (3) else 'ping' gives Ping, else 'pong' gives Pong; (4) else
\* the result is the unknown-format error.
C17_ParsePriority ==
    (parsed # NotParsed /\ frame_text.json) =>
        LET value == frame_text.value
        IN  IF Has(value, "stream")
            THEN LET name == IF value.o.stream.t = "string" THEN value.o.stream.s
                             ELSE <<>>
                     payload == IF Has(value, "data") THEN value.o.data ELSE value
                 IN  IF FirstMatch(name) = "none"
                     THEN parsed = WsErr("WebSocket", <<85, 110, 107, 110, 111, 119, 110, 32, 115, 116, 114, 101, 97, 109, 58, 32>> \o name)
                     ELSE DecodedAs(FirstMatch(name), payload)
            ELSE IF Has(value, "e") /\ value.o.e.t = "string"
            THEN IF EventVariant(value.o.e.s) = "none"
                 THEN parsed = WsErr("WebSocket", <<85, 110, 107, 110, 111, 119, 110, 32, 101, 118, 101, 110, 116, 32, 116, 121, 112, 101, 58, 32>> \o value.o.e.s)
                 ELSE DecodedAs(EventVariant(value.o.e.s), value)
            ELSE IF Has(value, "ping") THEN parsed = WsOk("Ping", JsonNull)
            ELSE IF Has(value, "pong") THEN parsed = WsOk("Pong", JsonNull)
            ELSE parsed = WsErr("WebSocket", <<85, 110, 107, 110, 111, 119, 110, 32, 109, 101, 115, 115, 97, 103, 101, 32, 102, 111, 114, 109, 97, 116>>)

\* A message whose stream name holds '@trade' before '@depth', whose 'e' is
\* "trade" and whose 'data' is a depth payload: it is a DepthUpdate.
C17_Witness ==
    /\ frame_text.json
    /\ Has(frame_text.value, "stream")
    /\ frame_text.value.o.stream = JsonString(<<116, 114, 97, 100, 101, 64, 100, 101, 112, 116, 104>>)
    /\ Has(frame_text.value, "e")
    /\ frame_text.value.o.e = JsonString(TRADE)
    /\ Has(frame_text.value, "data")
    /\ Has(frame_text.value, "ping")
    /\ parsed.kind = "Ok"
    /\ parsed.variant = "DepthUpdate"
    /\ parsed.value = frame_text.value.o.data

\* The pieces of a string between the occurrences of a separator character.
RECURSIVE Split(_, _)
Split(s, c) ==
    IF \A i \in 1..Len(s) : s[i] # c THEN <<s>>
    ELSE LET i == CHOOSE k \in 1..Len(s) : s[k] = c /\ \A j \in 1..(k - 1) : s[j] # c
         IN  <<SubSeq(s, 1, i - 1)>> \o Split(SubSeq(s, i + 1, Len(s)), c)

HasPrefix(s, p) == Len(s) >= Len(p) /\ SubSeq(s, 1, Len(p)) = p
After(s, p) == SubSeq(s, Len(p) + 1, Len(s))

\* The URL of a multiplexed connection of the client, up to its topics.
MultiplexPrefix == base_url \o <<115, 116, 114, 101, 97, 109, 63, 115, 116, 114, 101, 97, 109, 115, 61>>

\* C18: StreamBuilder::connect calls for at most one connection.  Without a
\* topic it returns a WebSocket error and calls for none; with one topic it
\* opens the single-topic connection to that topic; with more it opens one
\* multiplexed connection whose topics are all the configured topics in the
\* order they were added.
C18_ConnectByTopicCount ==
    connected.call = "connect" =>
        /\ Len(connections) <= 1
        /\ streams = <<>> => (connections = <<>> /\ connected.result = "WebSocket")
        /\ Len(streams) = 1 => connections = <<base_url \o streams[1]>>
        /\ Len(streams) > 1 =>
              /\ Len(connections) = 1
              /\ HasPrefix(connections[1], MultiplexPrefix)
              /\ Split(After(connections[1], MultiplexPrefix), Head(<<47>>)) = streams

\* connect() on a builder to which three different topics were added, the
\* all-tickers topic first: one connection, accepted by the server.
C18_Witness ==
    /\ connected.call = "connect"
    /\ connected.result = "Ok"
    /\ Len(streams) = 3
    /\ streams[1] = all_tickers_stream
    /\ streams[2] # streams[3]
    /\ streams[2] # streams[1]
    /\ Len(connections) = 1

\* The base endpoint of the client: its base_url without the final '/'.
BaseEndpoint == SubSeq(base_url, 1, Len(base_url) - 1)

\* The segments of the path of a URL in front of its last segment that are
\* 'ws'.
WsSegments(url) ==
    LET segments == Split(url, Head(<<47>>))
    IN  {i \in 1..(Len(segments) - 1) : segments[i] = <<119, 115>>}

\* C19: with {base} the base endpoint of the client, a single-topic
\* connection goes to {base}/{topic}, a multi-topic connection to
\* {base}/stream?streams={topic1}/{topic2}/..., and a user-data connection to
\* {base}/ws/{listenKey}, in which the segment 'ws' occurs exactly once
\* before the listen key.
C19_ConnectionUrls ==
    /\ connected.call = "connect_stream" =>
          connections = <<BaseEndpoint \o <<47>> \o connected.stream>>
    /\ connected.call = "connect_combined_stream" =>
          connections = <<BaseEndpoint \o <<47, 115, 116, 114, 101, 97, 109, 63, 115, 116, 114, 101, 97, 109, 115, 61>>
                              \o join(connected.topics, <<47>>)>>
    /\ connected.call = "user_data_stream" =>
          /\ connections = <<BaseEndpoint \o <<47, 119, 115, 47>> \o connected.listen_key>>
          /\ Cardinality(WsSegments(connections[1])) = 1

\* The messages parse_message makes of the Text messages among some items,
\* and the errors it returns for the others, each in arrival order.
RECURSIVE DecodedTexts(_)
DecodedTexts(items) ==
    IF items = <<>> THEN <<>>
    ELSE LET r == parse_message(Head(items).text)
         IN  (IF Head(items).kind = "Text" /\ r.kind = "Ok" THEN <<r>> ELSE <<>>)
                 \o DecodedTexts(Tail(items))

RECURSIVE DecodeFailures(_)
DecodeFailures(items) ==
    IF items = <<>> THEN <<>>
    ELSE LET r == parse_message(Head(items).text)
         IN  (IF Head(items).kind = "Text" /\ r.kind # "Ok" THEN <<r>> ELSE <<>>)
                 \o DecodeFailures(Tail(items))

\* The errors among the printed ones that are parse errors.
RECURSIVE ParseErrorsOf(_)
ParseErrorsOf(printed) ==
    IF printed = <<>> THEN <<>>
    ELSE (IF Head(printed).what = "Error parsing message"
          THEN <<Head(printed).error>> ELSE <<>>) \o ParseErrorsOf(Tail(printed))

\* C15: a Text message that fails to decode does not end handle_message.
\* The loop is still reading after every Text message; every decode failure
\* has been printed; and the handler has been given the messages of all the
\* Text messages that decode, those after a failure too, in arrival order.
C15_DecodeFailureDoesNotEndLoop ==
    loop # "none" =>
        /\ (inbound # <<>> /\ inbound[Len(inbound)].kind = "Text") => loop = "running"
        /\ ParseErrorsOf(reported) = DecodeFailures(inbound)
        /\ delivered = DecodedTexts(inbound)

\* A text that is not JSON, then an object that is no message, then a trade:
\* two failures are printed, the trade reaches the handler, the loop goes on.
C15_Witness ==
    /\ Len(inbound) = 3
    /\ inbound[1] = TextMessage(NOT_JSON)
    /\ inbound[2] = TextMessage(FrameText(JsonObject(NoFields)))
    /\ inbound[3].kind = "Text"
    /\ Len(delivered) = 1
    /\ delivered[1].variant = "Trade"
    /\ Len(reported) = 2
    /\ loop = "running"

\* The Pongs that answer the Pings among some items, in arrival order.
RECURSIVE PongsFor(_)
PongsFor(items) ==
    IF items = <<>> THEN <<>>
    ELSE (IF Head(items).kind = "Ping" THEN <<PongMessage(Head(items).data)>> ELSE <<>>)
             \o PongsFor(Tail(items))

\* The last item read is a Ping whose Pong has not gone out.
PongNotSent ==
    /\ inbound # <<>>
    /\ inbound[Len(inbound)].kind = "Ping"
    /\ outbound = PongsFor(SubSeq(inbound, 1, Len(inbound) - 1))

\* C16: whenever the loop is reading or has returned Ok, every Ping read so
\* far has been answered by a Pong with the same payload, in order; the loop
\* returns Ok exactly after a Close message or the end of the stream, and a
\* WebSocket error exactly after a failed read or a Ping whose Pong could not
\* be sent.
C16_PingAnsweredBeforeNextFrame ==
    loop # "none" =>
        /\ loop \in {"running", "Ok"} => outbound = PongsFor(inbound)
        /\ loop = "Ok" <=>
              (inbound # <<>> /\ inbound[Len(inbound)].kind \in {"Close", "None"})
        /\ loop = "WebSocket" <=>
              (inbound # <<>> /\ (inbound[Len(inbound)].kind = "Err" \/ PongNotSent))

\* A Ping with a payload, a Text message, then Close: the Pong with that
\* payload is the one frame sent and handle_message has returned Ok.
C16_Witness ==
    /\ Len(inbound) = 3
    /\ inbound[1] = PingMessage(<<107>>)
    /\ inbound[2].kind = "Text"
    /\ inbound[3].kind = "Close"
    /\ outbound = <<PongMessage(<<107>>)>>
    /\ loop = "Ok"

(***************************************************************************)
(* Properties of error propagation                                         *)
(***************************************************************************)
\* C21: a manager operation that returns Ok has issued no request that
\* failed: every failure of a request reaches the caller as the operation's
\* error.
C21_FailuresReachCaller ==
    (op.name # "none" /\ op.result = "Ok") =>
        \A i \in 1..Len(op.requests) : op.requests[i].result = "Ok"

(***************************************************************************)
(* Further properties of the listen-key manager                            *)
(***************************************************************************)
\* C26: in every state the manager reaches, a key is stored exactly when an
\* anchor is stored; and keepalive_listen_key or close_listen_key called while
\* no key is stored returns an error, issues no request, takes no time and
\* leaves the key and the anchor as they were.
C26_KeyIffAnchor ==
    /\ listen_key.some <=> last_keepalive.some
    /\ (op.name \in {"keepalive_listen_key", "close_listen_key"} /\ ~op.key_before.some) =>
          /\ op.result = "Api"
          /\ op.requests = <<>>
          /\ KeyAndAnchorKept
          /\ clock = op.started

\* A keepalive called at a later time while no key is stored: it is refused,
\* and neither a key nor an anchor is stored afterwards.
C26_Witness ==
    /\ op.name = "keepalive_listen_key"
    /\ ~op.key_before.some
    /\ op.result = "Api"
    /\ clock > 0
    /\ ~listen_key.some
    /\ ~last_keepalive.some

\* C27: when get_listen_key has returned Ok(key), is_expired() is false at
\* the moment of the return, whatever refresh interval is configured and
\* however much time has passed since the last keepalive.
C27_ReturnedKeyNotExpired ==
    (op.name = "get_listen_key" /\ op.result = "Ok") => ~is_expired(Manager)

\* The same for the refresh intervals that do not exceed the 60-minute window.
ReturnedKeyNotExpiredWithinWindow ==
    (op.name = "get_listen_key" /\ op.result = "Ok" /\ keepalive_interval <= ExpiryWindow) =>
        ~is_expired(Manager)

\* The keepalives among the requests of the recorded operation.
KeepalivesSent == {i \in 1..Len(op.requests) : op.requests[i].kind = "keepalive"}

\* C30: a turn of the loop of start_keepalive_task lasts at least the 30
\* minutes of its sleep; while a key is stored it sends exactly one
\* keepalive, for that key and before anything else, and while none is
\* stored it sends nothing and the loop goes on.  The loop ends, with
\* Ok(()), exactly when the keepalive has failed and the creation that
\* follows it has failed too.  When the keepalive fails and the creation
\* succeeds, a key is stored with its anchor at the present Instant and
\* the loop goes on; when the keepalive succeeds nothing else is sent.
C30_KeepaliveTaskTurns ==
    op.name = "start_keepalive_task" =>
        /\ clock - op.started >= TaskSleep
        /\ ~op.key_before.some =>
              op.requests = <<>> /\ KeyAndAnchorKept /\ task = "sleep"
        /\ op.key_before.some =>
              /\ KeepalivesSent = {1}
              /\ op.requests[1].listenKey = op.key_before
        /\ (op.key_before.some /\ op.requests[1].result = "Ok") =>
              /\ Len(op.requests) = 1
              /\ listen_key = op.key_before
              /\ last_keepalive = SomeInstant(clock)
              /\ task = "sleep"
        /\ (op.key_before.some /\ op.requests[1].result # "Ok") =>
              /\ Len(op.requests) = 2
              /\ op.requests[2].kind = "create"
              /\ op.requests[2].result = "Ok" =>
                    /\ listen_key.some
                    /\ last_keepalive = SomeInstant(clock)
                    /\ task = "sleep"
              /\ op.requests[2].result # "Ok" =>
                    /\ KeyAndAnchorKept
                    /\ task = "idle"
                    /\ op.result = "Ok"
        /\ task = "idle" <=>
              /\ Len(op.requests) = 2
              /\ op.requests[1].result # "Ok"
              /\ op.requests[2].result # "Ok"

\* The keepalive of a turn failed and the creation after it succeeded: the
\* key that was stored is replaced by another, and the loop sleeps again.
C30_Witness ==
    /\ op.name = "start_keepalive_task"
    /\ op.key_before.some
    /\ Len(op.requests) = 2
    /\ op.requests[1].result # "Ok"
    /\ op.requests[2].result = "Ok"
    /\ listen_key.some
    /\ listen_key # op.key_before
    /\ last_keepalive = SomeInstant(clock)
    /\ task = "sleep"

\* The recorded maintain() found the key alive, created no key, and the
\* stored key is still the one start() returned.
SessionKept ==
    /\ ~is_expired(BeforeOp)
    /\ \A i \in 1..Len(op.requests) : op.requests[i].kind # "create"
    /\ op.result = "Ok"
    /\ listen_key = session.key

\* C28 as stated: after a successful start(), with maintain() called on a
\* fixed cadence no longer than the refresh interval and every request
\* succeeding, every maintain() finds the key alive, none creates a key, and
\* the key start() returned stays the stored key.
C28_SessionNeverLost ==
    (/\ session.started
     /\ op.name = "maintain"
     /\ session.cadence <= keepalive_interval) => SessionKept

\* C28 amended: the same, when moreover the refresh interval and the cadence
\* together do not exceed the 60-minute window of is_expired.
C28_SessionNeverLostWithinWindow ==
    (/\ session.started
     /\ op.name = "maintain"
     /\ session.cadence <= keepalive_interval
     /\ keepalive_interval + session.cadence <= ExpiryWindow) => SessionKept

\* The default interval of 30 minutes and a cadence of 30 minutes: the second
\* maintain() after start(), an hour or more later, sent a keepalive for the
\* key start() returned.
C28_Witness ==
    /\ session.started
    /\ session.cadence = DefaultKeepaliveInterval
    /\ keepalive_interval = DefaultKeepaliveInterval
    /\ op.name = "maintain"
    /\ clock >= ExpiryWindow
    /\ Len(op.requests) = 1
    /\ op.requests[1].kind = "keepalive"
    /\ op.requests[1].result = "Ok"
    /\ listen_key = session.key
    /\ listen_key.some

(***************************************************************************)
(* Properties of Signer::sign on its own                                   *)
(***************************************************************************)
\* The lowercase hexadecimal digits '0'..'9' and 'a'..'f'.
LowerHexDigits == (48..57) \cup (97..102)

RECURSIVE Requested(_)
Requested(reqs) ==
    IF reqs = <<>> THEN <<>> ELSE <<OrderParams(Head(reqs))>> \o Requested(Tail(reqs))

\* C22: after replace_all_orders either the call returned Ok, the open
\* orders for the symbol are cancelled and all the new orders are open, or
\* it returned an error and the open orders are what they were before.
C22_ReplaceAllOrdersAtomic ==
    api_call.name = "replace_all_orders" =>
        \/ /\ api_call.result = "Ok"
           /\ open_orders = OrdersNotFor(api_call.book_before, api_call.symbol)
                                \o Requested(api_call.reqs)
        \/ /\ api_call.result # "Ok"
           /\ open_orders = api_call.book_before

\* C23: the order stop_loss_order submits is of type STOP and carries the
\* limit price as 'price' when a limit price is given, and is of type
\* STOP_MARKET without 'price' when none is given: the type oco_order gives
\* its stop leg for the same optional price.
C23_StopLossTypeFollowsPrice ==
    (api_call.name = "stop_loss_order" /\ api_call.sent # <<>>) =>
        LET params == api_call.sent[1].params
        IN  /\ api_call.price.some =>
                  /\ params[TYPE] = <<83, 84, 79, 80>>
                  /\ PRICE \in DOMAIN params
                  /\ params[PRICE] = api_call.price.value
            /\ ~api_call.price.some =>
                  /\ params[TYPE] = <<83, 84, 79, 80, 95, 77, 65, 82, 75, 69, 84>>
                  /\ PRICE \notin DOMAIN params
            /\ params[TYPE] = OrderTypeToString(stop_order_type(api_call.price))

\* The lower-case form of each symbol the builder is called with, and the
\* decimal digits of each depth level, written out.
LowerCased(symbol) ==
    CASE symbol = <<66, 84, 67, 85, 83, 68, 84>> -> <<98, 116, 99, 117, 115, 100, 116>>
      [] symbol = <<69, 116, 104, 85, 115, 100, 116>> -> <<101, 116, 104, 117, 115, 100, 116>>
Digits(n) == CASE n = 5 -> <<53>>

\* The call appended exactly the topic to the builder's list and left the
\* rest of the builder alone.
Appended(topic) ==
    /\ streams' = Append(streams, topic)
    /\ UNCHANGED <<base_url, connections, connected>>

\* C24: topic names are the lower-cased symbol followed by '@depth<N>@100ms'
\* (or '@depth@100ms' without a level), '@trade', '@kline_<interval>' or
\* '@ticker', and '!ticker@arr' for all tickers; each StreamBuilder method
\* appends exactly the corresponding name to the end of the list, so that
\* the list is in call order.
C24_TopicNamesInCallOrder ==
    [][/\ Depth =>
            \E symbol \in Symbols, levels \in DepthLevels :
                Appended(LowerCased(symbol)
                         \o (IF levels.some
                             THEN <<64, 100, 101, 112, 116, 104>> \o Digits(levels.n) \o <<64, 49, 48, 48, 109, 115>>
                             ELSE <<64, 100, 101, 112, 116, 104, 64, 49, 48, 48, 109, 115>>))
       /\ Trade => \E symbol \in Symbols : Appended(LowerCased(symbol) \o <<64, 116, 114, 97, 100, 101>>)
       /\ Kline =>
            \E symbol \in Symbols, interval \in Intervals :
                Appended(LowerCased(symbol) \o <<64, 107, 108, 105, 110, 101, 95>> \o interval)
       /\ Ticker => \E symbol \in Symbols : Appended(LowerCased(symbol) \o <<64, 116, 105, 99, 107, 101, 114>>)
       /\ AllTickers => Appended(<<33, 116, 105, 99, 107, 101, 114, 64, 97, 114, 114>>)]_vars

\* A builder after depth("BTCUSDT", Some(5)), trade("EthUsdt") and
\* kline("BTCUSDT", "1m"), in that order.
C24_Witness ==
    streams = <<<<98, 116, 99, 117, 115, 100, 116, 64, 100, 101, 112, 116, 104, 53, 64, 49, 48, 48, 109, 115>>, <<101, 116, 104, 117, 115, 100, 116, 64, 116, 114, 97, 100, 101>>, <<98, 116, 99, 117, 115, 100, 116, 64, 107, 108, 105, 110, 101, 95, 49, 109>>>>

\* The variant of the kind of topic a name of the builder is.
TopicKind(topic) ==
    CASE topic \in {depth_stream(symbol, levels) :
                        symbol \in Symbols, levels \in DepthLevels} -> "DepthUpdate"
      [] topic \in {trade_stream(symbol) : symbol \in Symbols} -> "Trade"
      [] topic \in {kline_stream(symbol, interval) :
                        symbol \in Symbols, interval \in Intervals} -> "Kline"
      [] OTHER -> "Ticker"

\* The payload the exchange sends on the topic: the event object of its kind,
\* and on the all-tickers topic an array of them.
WellFormed(topic, data) ==
    IF topic = all_tickers_stream
    THEN data = JsonArray
    ELSE data = JsonObject(PayloadFields(StructOf(TopicKind(topic))))

\* The envelope parse_message was given names the topic and carries its
\* payload.
EnvelopeOf(topic) ==
    /\ parsed # NotParsed
    /\ frame_text.json
    /\ Has(frame_text.value, "stream")
    /\ frame_text.value.o.stream = JsonString(topic)
    /\ Has(frame_text.value, "data")
    /\ WellFormed(topic, frame_text.value.o.data)

\* parse_message returned the envelope's payload as the variant of the topic.
DecodedForTopic(topic) ==
    /\ parsed.kind = "Ok"
    /\ parsed.variant = TopicKind(topic)
    /\ parsed.value = frame_text.value.o.data

\* C29: a well-formed envelope whose 'stream' is a topic name StreamBuilder
\* can add is decoded by parse_message into the variant of the topic's kind,
\* and is never rejected as an unknown stream.
C29_BuilderTopicsDispatched ==
    \A topic \in Topics : EnvelopeOf(topic) => DecodedForTopic(topic)

\* The same for the topics that name a symbol.
SymbolTopicsDispatched ==
    \A topic \in Topics \ {all_tickers_stream} :
        EnvelopeOf(topic) => DecodedForTopic(topic)

\* Envelopes of a depth, a trade, a kline and a ticker topic were decoded.
SymbolTopicDecoded(variant) ==
    \E topic \in Topics \ {all_tickers_stream} :
        EnvelopeOf(topic) /\ TopicKind(topic) = variant /\ DecodedForTopic(topic)
=============================================================================
